---- MODULE Spec2Model ----
(***************************************************************************)
(* Anchorage: a registry of Lavalink nodes (src/src/lib.rs), the per-node  *)
(* manager task (src/src/node/client.rs), the REST client                  *)
(* (src/src/node/rest.rs), the stream connection                           *)
(* (src/src/node/websocket.rs) and the player facade                       *)
(* (src/src/player/mod.rs).                                                *)
(*                                                                         *)
(* A manager is identified by the number of the Node::new call that built  *)
(* it; a Node handle is that number (all clones of a handle share the      *)
(* manager's command queue, session_id cell and events_sender map).        *)
(* Option<T> is a sequence: None is <<>>, Some(x) is <<x>>.  A hash map is *)
(* a function whose DOMAIN is its key set.                                 *)
(***************************************************************************)
EXTENDS Integers, Sequences, FiniteSets, TLC

\* ------------------------------------------------------------------ bounds
MaxNodes == 3        \* Node::new calls (managers built)
FleetSize == 2       \* nodes started in the specifications of registry calls
MaxTenant == 2       \* guild ids are 1..MaxTenant
NumTasks == 2        \* application tasks calling the registry
MaxCalls == 3        \* registry calls started
MaxEvents == 2       \* Player events dispatched on one channel
MaxRest == 2         \* Rest operations logged
ReconnectTries == 2  \* Options.reconnect_tries
U16Max == 65535      \* u16::MAX
MaxFilterValue == 2  \* the values a filter field takes: Some(1..MaxFilterValue)
MaxStreamCalls == 4  \* Connection::connect and Connection::disconnect calls on one Connection
MaxPublished == 3    \* results the producers of one Connection publish
MaxCommands == 2     \* commands sent on one node handle
QueueCalls == 2      \* registry calls started in the queue specification
MaxFrames == 2       \* frames one node's stream connection produces

NodeNames == {"A", "B", "C"}
FleetNames == {"A", "B"}
Mgrs == 1..MaxNodes
Tenants == 1..MaxTenant
Tasks == 1..NumTasks
Chans == 1..MaxCalls
Sessions == {"s1", "s2"}
EventNames == {"TrackStartEvent", "TrackEndEvent"}

None == <<>>
Some(x) == <<x>>

\* The f64 values the model uses are integers; system_load is carried in
\* hundredths, so that 100.0 * system_load is the integer itself.
Loads == {0, 10, 50}
FrameStatsSet == {[deficit |-> 10, nulled |-> 2], [deficit |-> -5, nulled |-> 0]}
StatsFrames ==
    [players : {0, 3}, system_load : Loads,
     frame_stats : {None} \cup {Some(f) : f \in FrameStatsSet}]

VARIABLES
    nodes,          \* Anchorage.nodes: node name -> Node handle
    next_node,      \* Node::new calls made so far
    manager,        \* NodeManager fields and the position of its task
    session_id,     \* NodeManager.session_id / Rest.session_id (shared cell)
    events_sender,  \* NodeManager.event_senders / Node.events_sender (shared map)
    connection,     \* Connection.handle: "None", or its producer task "Alive",
                    \* "Ending" (error sent, not yet finished) or "Finished"
    handshake,      \* Session-Id header of the last handshake attempt
    reply,          \* the last reply a manager sent on a command's reply channel
    chan,           \* values sent on each event channel, in order
    next_chan,      \* event channels created so far
    call,           \* the registry call each task is in, or its last one
    calls_started,  \* registry calls started so far
    http_requests,  \* requests executed by Rest.make_request
    rest_log,       \* Rest operations called directly: operation, result, url
    ideal,          \* the get_ideal_node call
    last_ready,     \* history: session_id of the last Ready frame dispatched
    last_stats,     \* history: the last Stats frame dispatched
    cmd_queue,      \* Node.commands_sender -> commands_receiver, per manager
    msg_queue,      \* Connection.sender -> message_receiver, per manager
    node_queue,     \* node_sender -> NodeManager.receiver: the merged queue
    sent,           \* history: the commands sent on the handle, in order
    dispatched,     \* history: the commands handle_command was called with
    replied,        \* history: the replies sent on the commands' reply channels
    arrived,        \* history: the frames the stream connection produced
    failed,         \* history: the commands dropped with their reply channels
    in_reconnect,   \* history: the commands sent while the manager reconnected
    late,           \* history: the commands sent after the manager task ended
    filters,        \* Player::update_filters: its argument, the fetched, the submitted
    starting,       \* the Anchorage::start call: its descriptors and its position
    stream          \* one Connection: its handle, its producer tasks, what they sent

mgrVars == <<manager, session_id, events_sender, connection, handshake,
             reply, last_ready, last_stats>>
regVars == <<nodes, next_node, chan, next_chan, call, calls_started>>
restVars == <<http_requests, rest_log>>
queueVars == <<cmd_queue, msg_queue, node_queue, sent, dispatched, replied, arrived,
               failed, in_reconnect, late>>
appVars == <<filters, starting, stream>>
vars == <<nodes, next_node, manager, session_id, events_sender, connection,
          handshake, reply, chan, next_chan, call, calls_started,
          http_requests, rest_log, ideal, last_ready, last_stats,
          cmd_queue, msg_queue, node_queue, sent, dispatched, replied, arrived,
          failed, in_reconnect, late, filters, starting, stream>>

\* a step of a specification that hands the manager its inputs directly
Direct(A) == A /\ UNCHANGED <<queueVars, appVars>>

\* ------------------------------------------------------------ hash maps
EmptyMap == <<>>
Contains(map, k) == k \in DOMAIN map

\* scc HashMap::insert_async: an existing key is kept and the pair handed back
Insert(map, k, v) ==
    IF k \in DOMAIN map THEN map
    ELSE [x \in DOMAIN map \cup {k} |-> IF x = k THEN v ELSE map[x]]

Remove(map, k) == [x \in DOMAIN map \ {k} |-> map[x]]

\* ------------------------------------------------------------- penalties
\* 1.05^k = (21/20)^k in fixed point with six decimals, rounded down (PowLo)
\* and up (PowHi); the two bracket the exact value.
RECURSIVE PowLo(_)
PowLo(k) == IF k = 0 THEN 1000000 ELSE (PowLo(k - 1) * 21) \div 20
RECURSIVE PowHi(_)
PowHi(k) == IF k = 0 THEN 1000000 ELSE (PowHi(k - 1) * 21 + 19) \div 20

\* f64::round: half away from zero (the argument is positive here)
Round(x) == (x + 500000) \div 1000000

\* f64::powf(1.05, 100.0 * system_load).round()
PowfTable == [k \in Loads |-> CHOOSE r \in {Round(PowLo(k))} : r = Round(PowHi(k))]
PowfRound(k) == PowfTable[k]

\* handle_message, Stats arm: the penalties computed from one frame
StatsPenaltiesNoReset(old, data) ==
    old + data.players + PowfRound(data.system_load)
    + (IF data.frame_stats # None
       THEN data.frame_stats[1].deficit + data.frame_stats[1].nulled * 2 ELSE 0)
StatsPenalties(old, data) ==
    LET p0 == 0
        p1 == p0 + data.players
        p2 == p1 + PowfRound(data.system_load)
    IN  IF data.frame_stats # None
        THEN p2 + data.frame_stats[1].deficit + data.frame_stats[1].nulled * 2
        ELSE p2

\* ------------------------------------------------------------------ Rest
SessionScoped == {"get_player", "get_players", "update_player", "destroy_player",
                  "update_session"}
RestOps == SessionScoped \cup {"stats"}

\* Rest::get_session_id
get_session_id(m) == session_id[m]

\* One Rest operation on manager m's Rest: its result and the url requested
\* (None when no request is executed).  http_ok is the server's answer.
RestRequestNoGate(op, m, http_ok) ==
    IF op \in SessionScoped \ {"destroy_player"} /\ get_session_id(m) = None
    THEN [result |-> "NoSessionId", url |-> None]
    ELSE [result |-> IF http_ok THEN "Ok" ELSE "ResponseReceivedNotOk",
          url |-> Some([path |-> op,
                        session |-> IF op \in SessionScoped
                                    THEN get_session_id(m) ELSE None])]
RestRequest(op, m, http_ok) ==
    IF op \in SessionScoped /\ get_session_id(m) = None
    THEN [result |-> "NoSessionId", url |-> None]
    ELSE [result |-> IF http_ok THEN "Ok" ELSE "ResponseReceivedNotOk",
          url |-> Some([path |-> op,
                        session |-> IF op \in SessionScoped
                                    THEN get_session_id(m) ELSE None])]

Executed(r) == IF r.url = None THEN 0 ELSE 1

\* A Rest operation called directly by the application on a registered handle
rest_call(m, op, http_ok) ==
    /\ manager[m].pc # "unborn"
    /\ Len(rest_log) < MaxRest
    /\ LET r == RestRequest(op, m, http_ok)
       IN  /\ rest_log' = Append(rest_log, [node |-> m, op |-> op,
                                            result |-> r.result, url |-> r.url])
           /\ http_requests' = http_requests + Executed(r)
    /\ UNCHANGED <<mgrVars, regVars, ideal>>

\* ----------------------------------------------------------- the manager
Unborn == [name |-> "", penalties |-> 0, statistics |-> None, destroyed |-> FALSE,
           reconnects |-> 0, pc |-> "unborn", cont |-> "none", watcher |-> "none",
           attempts |-> 0, sleeps |-> 0, counted |-> 0,
           reconnect_tries |-> ReconnectTries]

\* NodeManager::new followed by a successful first connect and the spawn
NewManager(d) == [name |-> d, penalties |-> 0, statistics |-> None,
                  destroyed |-> FALSE, reconnects |-> 0, pc |-> "recv",
                  cont |-> "none", watcher |-> "waiting", attempts |-> 0, sleeps |-> 0,
                  counted |-> 0, reconnect_tries |-> ReconnectTries]

\* Connection::available
available_never(m) == FALSE
available(m) == connection[m] \in {"Alive", "Ending"}

\* the Session-Id header NodeManager::connect builds
SessionHeader(m) == IF session_id[m] # None THEN session_id[m][1] ELSE ""

\* From<&NodeManager> for NodeManagerData
NodeManagerData(m) == [penalties |-> manager[m].penalties,
                       statistics |-> manager[m].statistics]

\* send_players_destroy, the scan: Destroyed on every sender of the map
BroadcastNothing(m) == chan
Broadcast(m) ==
    [c \in Chans |-> IF \E t \in DOMAIN events_sender[m] : events_sender[m][t] = c
                     THEN Append(chan[c], "Destroyed") ELSE chan[c]]

\* EventType::Player(data) is the name of data's variant, EventType::Destroyed
\* is "Destroyed"
PlayerEvents(c) == Len(SelectSeq(chan[c], LAMBDA v : v # "Destroyed"))

MessagesAll ==
    {[kind |-> "Err"], [kind |-> "None"], [kind |-> "PlayerUpdate"]}
    \cup {[kind |-> "Ready", session_id |-> s] : s \in Sessions}
    \cup {[kind |-> "Stats", data |-> f] : f \in StatsFrames}
    \cup {[kind |-> "Event", guild_id |-> t, event |-> e] : t \in Tenants, e \in EventNames}

\* handle_message, Ready arm
ReadyFirstOnly(m, msg) == IF session_id[m] = None THEN Some(msg.session_id) ELSE session_id[m]
ReadySession(m, msg) == Some(msg.session_id)

\* handle_message, Event arm: the sender event_senders.get_async(guild_id) finds
SenderAny(m, t) == events_sender[m][CHOOSE x \in DOMAIN events_sender[m] : TRUE]
Sender(m, t) == events_sender[m][t]

\* NodeManager::handle_message
handle_message(m, msg) ==
    /\ manager[m].pc = "recv"
    /\ CASE msg.kind = "Err" ->
              \* self.connect(): returns at once when the connection is available
              /\ manager' = IF available(m) THEN manager
                            ELSE [manager EXCEPT ![m].pc = "connect", ![m].cont = "Err",
                                                 ![m].attempts = 0, ![m].sleeps = 0]
              /\ UNCHANGED <<session_id, last_ready, last_stats, chan>>
         [] msg.kind = "Ready" ->
              /\ session_id' = [session_id EXCEPT ![m] = ReadySession(m, msg)]
              /\ last_ready' = [last_ready EXCEPT ![m] = Some(msg.session_id)]
              /\ UNCHANGED <<manager, last_stats, chan>>
         [] msg.kind = "Stats" ->
              /\ manager' = [manager EXCEPT
                    ![m].statistics = Some(msg.data),
                    ![m].penalties = StatsPenalties(manager[m].penalties, msg.data)]
              /\ last_stats' = [last_stats EXCEPT ![m] = Some(msg.data)]
              /\ UNCHANGED <<session_id, last_ready, chan>>
         [] msg.kind = "Event" ->
              /\ IF Contains(events_sender[m], msg.guild_id)
                 THEN LET c == Sender(m, msg.guild_id)
                      IN  /\ PlayerEvents(c) < MaxEvents
                          /\ chan' = [chan EXCEPT ![c] = Append(@, msg.event)]
                 ELSE UNCHANGED chan
              /\ UNCHANGED <<manager, session_id, last_ready, last_stats>>
         [] OTHER ->
              UNCHANGED <<manager, session_id, last_ready, last_stats, chan>>
    /\ UNCHANGED <<events_sender, connection, handshake, reply>>
    /\ UNCHANGED <<nodes, next_node, next_chan, call, calls_started, restVars, ideal>>

Commands == {"Connect", "Disconnect", "Destroy", "GetData"}

\* NodeManager::handle_command
handle_command(m, cmd) ==
    /\ manager[m].pc = "recv"
    /\ CASE cmd = "Connect" ->
              IF available(m)
              THEN /\ reply' = [reply EXCEPT ![m] = Some([cmd |-> "Connect", result |-> "Ok"])]
                   /\ UNCHANGED <<manager, connection, chan>>
              ELSE /\ manager' = [manager EXCEPT ![m].pc = "connect", ![m].cont = "Connect",
                                                    ![m].attempts = 0, ![m].sleeps = 0]
                   /\ UNCHANGED <<reply, connection, chan>>
         [] cmd \in {"Disconnect", "Destroy"} ->
              \* disconnect(): Connection::disconnect, then the scan of
              \* send_players_destroy; the clear is the manager's next step
              /\ connection' = [connection EXCEPT ![m] = "None"]
              /\ chan' = Broadcast(m)
              /\ manager' = [manager EXCEPT ![m].pc = "clear", ![m].cont = cmd]
              /\ UNCHANGED reply
         [] cmd = "GetData" ->
              /\ reply' = [reply EXCEPT ![m] = Some([cmd |-> "GetData", data |-> NodeManagerData(m)])]
              /\ UNCHANGED <<manager, connection, chan>>
    /\ UNCHANGED <<session_id, events_sender, handshake, last_ready, last_stats>>
    /\ UNCHANGED <<nodes, next_node, next_chan, call, calls_started, restVars, ideal>>

\* `self.reconnects = 0` in connect (on both ways out) and in disconnect
ResetKept(n) == n
Reset(n) == 0

\* NodeManager::connect, the test after a failed attempt: retry while the
\* attempts made are fewer than tries
RetryOnceMore(n, tries) == n <= tries
Retry(n, tries) == n < tries

\* NodeManager::connect, one turn of its loop: a handshake attempt.  The fields
\* attempts, sleeps and counted are history: the handshake attempts and the
\* backoff sleeps of the current (or last) call of connect, and the value of
\* self.reconnects during the last attempt (after `self.reconnects += 1`).
connect_attempt(m, ok) ==
    /\ manager[m].pc = "connect"
    /\ handshake' = [handshake EXCEPT ![m] = Some(SessionHeader(m))]
    /\ LET n == (manager[m].reconnects + 1) % (U16Max + 1)
       IN  IF ok
           THEN /\ connection' = [connection EXCEPT ![m] = "Alive"]
                /\ manager' = [manager EXCEPT ![m].reconnects = Reset(n), ![m].pc = "recv",
                                              ![m].cont = "none",
                                              ![m].attempts = @ + 1, ![m].counted = n]
                /\ reply' = IF manager[m].cont = "Connect"
                            THEN [reply EXCEPT ![m] = Some([cmd |-> "Connect", result |-> "Ok"])]
                            ELSE reply
           ELSE /\ connection' = [connection EXCEPT ![m] = "None"]
                /\ IF Retry(n, manager[m].reconnect_tries)
                   THEN /\ manager' = [manager EXCEPT ![m].reconnects = n,
                                          ![m].pc = "sleep", ![m].attempts = @ + 1, ![m].counted = n]
                        /\ UNCHANGED reply
                   ELSE IF manager[m].cont = "Connect"
                   THEN /\ manager' = [manager EXCEPT ![m].reconnects = Reset(n),
                                          ![m].pc = "recv", ![m].cont = "none",
                                          ![m].attempts = @ + 1, ![m].counted = n]
                        /\ reply' = [reply EXCEPT ![m] = Some([cmd |-> "Connect", result |-> "Err"])]
                   ELSE \* handle_message returns the error: handle() ends
                        /\ manager' = [manager EXCEPT ![m].reconnects = Reset(n),
                                          ![m].pc = "exit", ![m].cont = "none",
                                          ![m].attempts = @ + 1, ![m].counted = n]
                        /\ UNCHANGED reply
    /\ UNCHANGED <<session_id, events_sender, chan, last_ready, last_stats>>
    /\ UNCHANGED <<nodes, next_node, next_chan, call, calls_started, restVars, ideal>>

\* NodeManager::connect: sleep(duration) before the next turn of the loop
connect_sleep(m) ==
    /\ manager[m].pc = "sleep"
    /\ manager' = [manager EXCEPT ![m].pc = "connect", ![m].sleeps = @ + 1]
    /\ UNCHANGED <<session_id, events_sender, connection, handshake, reply, chan,
                   last_ready, last_stats>>
    /\ UNCHANGED <<nodes, next_node, next_chan, call, calls_started, restVars, ideal>>

\* send_players_destroy, the clear, and what follows it in the caller
send_players_destroy_clear(m) ==
    /\ manager[m].pc = "clear"
    /\ events_sender' = [events_sender EXCEPT ![m] = EmptyMap]
    /\ CASE manager[m].cont = "Disconnect" ->
              /\ manager' = [manager EXCEPT ![m].reconnects = Reset(@), ![m].pc = "recv",
                                            ![m].cont = "none"]
              /\ reply' = [reply EXCEPT ![m] = Some([cmd |-> "Disconnect"])]
         [] manager[m].cont = "Destroy" ->
              /\ manager' = [manager EXCEPT ![m].reconnects = Reset(@), ![m].destroyed = TRUE,
                                            ![m].pc = "exit", ![m].cont = "none"]
              /\ reply' = [reply EXCEPT ![m] = Some([cmd |-> "Destroy"])]
         [] OTHER ->
              /\ manager' = [manager EXCEPT ![m].pc = "exited", ![m].cont = "none"]
              /\ UNCHANGED reply
    /\ UNCHANGED <<session_id, connection, handshake, chan, last_ready, last_stats>>
    /\ UNCHANGED <<nodes, next_node, next_chan, call, calls_started, restVars, ideal>>

\* NodeManager::start after handle() returned: the scan of send_players_destroy
start_cleanup(m) ==
    /\ manager[m].pc = "exit"
    /\ chan' = Broadcast(m)
    /\ manager' = [manager EXCEPT ![m].pc = "clear", ![m].cont = "Exit"]
    /\ UNCHANGED <<session_id, events_sender, connection, handshake, reply,
                   last_ready, last_stats>>
    /\ UNCHANGED <<nodes, next_node, next_chan, call, calls_started, restVars, ideal>>

\* the producer task of Connection::connect ends after a stream error
producer_ends(m) ==
    /\ connection[m] = "Alive"
    /\ manager[m].pc # "unborn"
    /\ connection' = [connection EXCEPT ![m] = "Finished"]
    /\ UNCHANGED <<manager, session_id, events_sender, handshake, reply,
                   last_ready, last_stats>>
    /\ UNCHANGED <<regVars, restVars, ideal>>

\* the task Anchorage::start spawns per node: awaits the manager, removes its
\* name (remove_async waits while a call holds the entry of that name)
watcher(m) ==
    /\ manager[m].pc = "exited"
    /\ manager[m].watcher = "waiting"
    /\ \A p \in Tasks : call[p].held # manager[m].name
    /\ manager' = [manager EXCEPT ![m].watcher = "done"]
    /\ nodes' = Remove(nodes, manager[m].name)
    /\ UNCHANGED <<session_id, events_sender, connection, handshake, reply,
                   last_ready, last_stats>>
    /\ UNCHANGED <<next_node, chan, next_chan, call, calls_started, restVars, ideal>>

\* Anchorage::start, one descriptor of nodes_data: Node::new, the watcher, the insert
start(d, ok) ==
    /\ next_node < MaxNodes
    /\ IF ok
       THEN LET m == next_node + 1
            IN  /\ next_node' = m
                /\ manager' = [manager EXCEPT ![m] = NewManager(d)]
                /\ connection' = [connection EXCEPT ![m] = "Alive"]
                /\ handshake' = [handshake EXCEPT ![m] = Some(SessionHeader(m))]
                /\ nodes' = Insert(nodes, d, m)
       ELSE UNCHANGED <<next_node, manager, connection, handshake, nodes>>
    /\ UNCHANGED <<session_id, events_sender, reply, last_ready, last_stats>>
    /\ UNCHANGED <<chan, next_chan, call, calls_started, restVars, ideal>>

\* Anchorage::start is called with the descriptors nodes_data
Anchorage_start(list) ==
    /\ starting.pc = "idle"
    /\ starting' = IF list = <<>>
                   THEN [starting EXCEPT !.pc = "done", !.result = "Ok"]
                   ELSE [starting EXCEPT !.pc = "running", !.list = list, !.pos = 1,
                                         !.first = next_node]
    /\ UNCHANGED <<mgrVars, regVars, restVars, ideal, queueVars, filters, stream>>

\* start after Node::new(..).await? of the descriptor at pos: the error is
\* returned, or the loop goes on to the next descriptor, or ends with Ok(())
AfterNodeSkipping(s, ok) ==
    IF s.pos = Len(s.list)
    THEN [s EXCEPT !.pc = "done", !.result = IF ok THEN "Ok" ELSE "Err"]
    ELSE [s EXCEPT !.pos = @ + 1]
AfterNode(s, ok) ==
    IF ~ok THEN [s EXCEPT !.pc = "done", !.result = "Err"]
    ELSE IF s.pos = Len(s.list) THEN [s EXCEPT !.pc = "done", !.result = "Ok"]
    ELSE [s EXCEPT !.pos = @ + 1]

\* Anchorage::start, one turn of its loop over nodes_data
start_node(ok) ==
    /\ starting.pc = "running"
    /\ start(starting.list[starting.pos], ok)
    /\ starting' = AfterNode(starting, ok)
    /\ UNCHANGED <<queueVars, filters, stream>>

\* ------------------------------------------------------------ the queues
\* flume Sender::send_async on an unbounded channel: the value goes to the back
EnqueueFront(q, x) == <<x>> \o q
Enqueue(q, x) == Append(q, x)

otherQueueVars == <<mgrVars, regVars, restVars, ideal, appVars>>

\* the manager is inside the connect() its handle_message called for a stream error
Reconnecting(m) == manager[m].pc \in {"connect", "sleep"} /\ manager[m].cont = "Err"

\* Node::connect, Node::disconnect, Node::destroy, Node::data: the command is
\* sent on commands_sender (the caller then awaits its reply channel)
send_async(m, cmd) ==
    /\ cmd_queue' = [cmd_queue EXCEPT ![m] =
                        Enqueue(@, [cmd |-> cmd, id |-> Len(sent[m]) + 1])]
    /\ sent' = [sent EXCEPT ![m] = Append(@, cmd)]
    /\ in_reconnect' = IF Reconnecting(m)
                       THEN [in_reconnect EXCEPT ![m] = @ \cup {Len(sent[m]) + 1}]
                       ELSE in_reconnect
    /\ late' = IF manager[m].pc = "exited"
               THEN [late EXCEPT ![m] = @ \cup {Len(sent[m]) + 1}]
               ELSE late
    /\ UNCHANGED <<msg_queue, node_queue, dispatched, replied, arrived, failed>>

\* a call of one of the four on a clone of the handle
Node_command(m, cmd) ==
    /\ manager[m].pc # "unborn"
    /\ Len(sent[m]) < MaxCommands
    /\ send_async(m, cmd)
    /\ UNCHANGED otherQueueVars

\* the manager task ended and dropped NodeManager.receiver with the manager: a
\* send_async on node_sender fails from then on
DisconnectedNever(m) == FALSE
Disconnected(m) == manager[m].pc = "exited"

\* NodeManager::new, the first task it spawns: commands_receiver -> node_sender
\* (the send fails, and the command is dropped, once the manager is gone)
forward_command(m) ==
    /\ cmd_queue[m] # <<>>
    /\ cmd_queue' = [cmd_queue EXCEPT ![m] = Tail(@)]
    /\ node_queue' = IF Disconnected(m) THEN node_queue
                     ELSE [node_queue EXCEPT ![m] =
                             Enqueue(@, [type |-> "Command", cmd |-> Head(cmd_queue[m]).cmd,
                                         id |-> Head(cmd_queue[m]).id])]
    /\ failed' = IF Disconnected(m)
                 THEN [failed EXCEPT ![m] = @ \cup {Head(cmd_queue[m]).id}]
                 ELSE failed
    /\ UNCHANGED <<msg_queue, sent, dispatched, replied, arrived, in_reconnect, late>>
    /\ UNCHANGED otherQueueVars

\* the event frames for tenant t among the frames of a sequence
EventsFor(q, t) == SelectSeq(q, LAMBDA f : f.kind = "Event" /\ f.guild_id = t)

\* Connection::connect, the producer task: one result of get_message is sent
\* on Connection.sender; the task ends after an error
producer(m, msg) ==
    /\ connection[m] = "Alive"
    /\ Len(arrived[m]) < MaxFrames
    /\ msg.kind = "Event" => Len(EventsFor(arrived[m], msg.guild_id)) < MaxEvents
    /\ msg_queue' = [msg_queue EXCEPT ![m] = Enqueue(@, msg)]
    /\ arrived' = [arrived EXCEPT ![m] = Append(@, msg)]
    /\ connection' = IF msg.kind = "Err" THEN [connection EXCEPT ![m] = "Ending"]
                     ELSE connection
    /\ UNCHANGED <<cmd_queue, node_queue, sent, dispatched, replied, failed,
                   in_reconnect, late>>
    /\ UNCHANGED <<manager, session_id, events_sender, handshake, reply,
                   last_ready, last_stats>>
    /\ UNCHANGED <<regVars, restVars, ideal, appVars>>

\* the producer task, having sent the error and left its loop, finishes
producer_finish(m) ==
    /\ connection[m] = "Ending"
    /\ connection' = [connection EXCEPT ![m] = "Finished"]
    /\ UNCHANGED queueVars
    /\ UNCHANGED <<manager, session_id, events_sender, handshake, reply,
                   last_ready, last_stats>>
    /\ UNCHANGED <<regVars, restVars, ideal, appVars>>

\* NodeManager::new, the second task it spawns: message_receiver -> node_sender
forward_message(m) ==
    /\ msg_queue[m] # <<>>
    /\ msg_queue' = [msg_queue EXCEPT ![m] = Tail(@)]
    /\ node_queue' = IF Disconnected(m) THEN node_queue
                     ELSE [node_queue EXCEPT ![m] =
                             Enqueue(@, [type |-> "Message", msg |-> Head(msg_queue[m])])]
    /\ UNCHANGED <<cmd_queue, sent, dispatched, replied, arrived, failed, in_reconnect, late>>
    /\ UNCHANGED otherQueueVars

\* history: the reply a step of manager m sends on the reply channel of the
\* command it was dispatched last, once that command's arm is through
ReplyLog(m) ==
    IF Len(replied[m]) < Len(dispatched'[m]) /\ manager'[m].cont \notin Commands
    THEN Append(replied[m],
                [id |-> dispatched'[m][Len(dispatched'[m])].id,
                 cmd |-> IF reply'[m] = None THEN "none" ELSE reply'[m][1].cmd])
    ELSE replied[m]

\* NodeManager::handle, one turn of its loop: receive one item and dispatch it
handle(m) ==
    /\ manager[m].pc = "recv"
    /\ node_queue[m] # <<>>
    /\ LET item == Head(node_queue[m])
       IN  /\ node_queue' = [node_queue EXCEPT ![m] = Tail(@)]
           /\ IF item.type = "Command"
              THEN /\ handle_command(m, item.cmd)
                   /\ dispatched' = [dispatched EXCEPT ![m] =
                                        Append(@, [id |-> item.id, cmd |-> item.cmd])]
              ELSE /\ handle_message(m, item.msg)
                   /\ UNCHANGED dispatched
    /\ replied' = [replied EXCEPT ![m] = ReplyLog(m)]
    /\ UNCHANGED <<cmd_queue, msg_queue, sent, arrived, failed, in_reconnect, late, appVars>>

\* a step of the manager inside the arm of the item it received
InArm(m, A) ==
    /\ A
    /\ UNCHANGED <<cmd_queue, msg_queue, node_queue, sent, dispatched, arrived,
                   failed, in_reconnect, late, appVars>>
    /\ replied' = [replied EXCEPT ![m] = ReplyLog(m)]

\* ------------------------------------------------------- registry calls
Idle == [op |-> "none", pc |-> "idle", guild_id |-> 0, node |-> 0, scanned |-> {},
         held |-> "", chan |-> 0, result |-> "none", name |-> "", destroy |-> FALSE,
         awaits |-> 0]

AllIdle == \A p \in Tasks : call[p].pc = "idle"

\* the registry entry a destroy_player call keeps locked (its OccupiedEntry)
Locked(nm, p) == \E q \in Tasks \ {p} : call[q].held = nm

\* the closure of get_node_for_player: node.events_sender.contains(&guild_id)
ScanHitAlways(p, h) == TRUE
ScanHitTargetOnly(p, h) == h = call[p].node /\ Contains(events_sender[h], call[p].guild_id)
ScanHit(p, h) == Contains(events_sender[h], call[p].guild_id)

\* Anchorage::create_player is called with a handle taken from the registry
create_player(p, t, h) ==
    /\ call[p].pc = "idle"
    /\ calls_started < MaxCalls
    /\ \E nm \in DOMAIN nodes : nodes[nm] = h
    /\ call' = [call EXCEPT ![p] = [Idle EXCEPT !.op = "create_player", !.pc = "scan",
                                                !.guild_id = t, !.node = h]]
    /\ calls_started' = calls_started + 1
    /\ UNCHANGED <<nodes, next_node, chan, next_chan, mgrVars, restVars, ideal>>

\* Anchorage::destroy_player is called
destroy_player(p, t) ==
    /\ call[p].pc = "idle"
    /\ calls_started < MaxCalls
    /\ call' = [call EXCEPT ![p] = [Idle EXCEPT !.op = "destroy_player", !.pc = "scan",
                                                !.guild_id = t]]
    /\ calls_started' = calls_started + 1
    /\ UNCHANGED <<nodes, next_node, chan, next_chan, mgrVars, restVars, ideal>>

\* get_node_for_player (any_entry_async): the scan visits one more entry of
\* Anchorage.nodes, in the map's order, waiting for an entry another task holds
get_node_for_player(p, nm) ==
    /\ call[p].pc = "scan"
    /\ nm \in DOMAIN nodes \ call[p].scanned
    /\ ~Locked(nm, p)
    /\ IF ScanHit(p, nodes[nm])
       THEN IF call[p].op = "create_player"
            THEN call' = [call EXCEPT ![p].pc = "idle",
                                      ![p].result = "CreateExistingPlayer"]
            ELSE call' = [call EXCEPT ![p].pc = "rest", ![p].node = nodes[nm],
                                      ![p].held = nm]
       ELSE call' = [call EXCEPT ![p].scanned = @ \cup {nm}]
    /\ UNCHANGED <<nodes, next_node, chan, next_chan, calls_started, mgrVars,
                   restVars, ideal>>

\* get_node_for_player found no entry
get_node_for_player_none(p) ==
    /\ call[p].pc = "scan"
    /\ DOMAIN nodes \subseteq call[p].scanned
    /\ IF call[p].op = "create_player"
       THEN call' = [call EXCEPT ![p].pc = "new"]
       ELSE call' = [call EXCEPT ![p].pc = "idle", ![p].result = "Ok"]
    /\ UNCHANGED <<nodes, next_node, chan, next_chan, calls_started, mgrVars,
                   restVars, ideal>>

\* Player::new: the event channel, then update_connection over the node's Rest
Player_new_subscribing(p, http_ok) ==
    /\ call[p].pc = "new"
    /\ LET r == RestRequest("update_player", call[p].node, http_ok)
       IN  /\ http_requests' = http_requests + Executed(r)
           /\ next_chan' = next_chan + 1
           /\ IF r.result = "Ok"
              THEN /\ call' = [call EXCEPT ![p].pc = "insert", ![p].chan = next_chan + 1]
                   /\ UNCHANGED events_sender
              ELSE /\ call' = [call EXCEPT ![p].pc = "idle", ![p].result = r.result]
                   /\ events_sender' = [events_sender EXCEPT ![call[p].node] =
                                           Insert(@, call[p].guild_id, next_chan + 1)]
    /\ UNCHANGED <<nodes, next_node, chan, calls_started, rest_log, ideal,
                   manager, session_id, connection, handshake, reply, last_ready,
                   last_stats>>
Player_new(p, http_ok) ==
    /\ call[p].pc = "new"
    /\ LET r == RestRequest("update_player", call[p].node, http_ok)
       IN  /\ http_requests' = http_requests + Executed(r)
           /\ IF r.result = "Ok"
              THEN /\ next_chan' = next_chan + 1
                   /\ call' = [call EXCEPT ![p].pc = "insert", ![p].chan = next_chan + 1]
              ELSE /\ call' = [call EXCEPT ![p].pc = "idle", ![p].result = r.result]
                   /\ UNCHANGED next_chan
    /\ UNCHANGED <<nodes, next_node, chan, calls_started, mgrVars, rest_log, ideal>>

\* create_player: node.events_sender.insert_async(guild_id, events_sender), Ok
create_player_insert(p) ==
    /\ call[p].pc = "insert"
    /\ events_sender' = [events_sender EXCEPT ![call[p].node] =
                            Insert(@, call[p].guild_id, call[p].chan)]
    /\ call' = [call EXCEPT ![p].pc = "idle", ![p].result = "Ok"]
    /\ UNCHANGED <<nodes, next_node, chan, next_chan, calls_started, restVars, ideal,
                   manager, session_id, connection, handshake, reply, last_ready,
                   last_stats>>

\* destroy_player: node.rest.destroy_player(guild_id).await?
destroy_player_rest_removing(p, http_ok) ==
    /\ call[p].pc = "rest"
    /\ LET r == RestRequest("destroy_player", call[p].node, http_ok)
       IN  /\ http_requests' = http_requests + Executed(r)
           /\ IF r.result = "Ok"
              THEN /\ call' = [call EXCEPT ![p].pc = "send"]
                   /\ UNCHANGED events_sender
              ELSE /\ call' = [call EXCEPT ![p].pc = "idle", ![p].held = "",
                                           ![p].result = r.result]
                   /\ events_sender' = [events_sender EXCEPT ![call[p].node] =
                                           Remove(@, call[p].guild_id)]
    /\ UNCHANGED <<nodes, next_node, chan, next_chan, calls_started, rest_log, ideal,
                   manager, session_id, connection, handshake, reply, last_ready,
                   last_stats>>
destroy_player_rest(p, http_ok) ==
    /\ call[p].pc = "rest"
    /\ LET r == RestRequest("destroy_player", call[p].node, http_ok)
       IN  /\ http_requests' = http_requests + Executed(r)
           /\ IF r.result = "Ok"
              THEN call' = [call EXCEPT ![p].pc = "send"]
              ELSE call' = [call EXCEPT ![p].pc = "idle", ![p].held = "",
                                        ![p].result = r.result]
    /\ UNCHANGED <<nodes, next_node, chan, next_chan, calls_started, mgrVars,
                   rest_log, ideal>>

\* destroy_player: the Destroyed sent on the sender found under guild_id
destroy_player_no_send(p) ==
    /\ call[p].pc = "send"
    /\ call' = [call EXCEPT ![p].pc = "remove"]
    /\ UNCHANGED <<nodes, next_node, chan, next_chan, calls_started, mgrVars, restVars,
                   ideal>>
destroy_player_send(p) ==
    /\ call[p].pc = "send"
    /\ LET map == events_sender[call[p].node]
       IN  IF Contains(map, call[p].guild_id)
           THEN chan' = [chan EXCEPT ![map[call[p].guild_id]] = Append(@, "Destroyed")]
           ELSE UNCHANGED chan
    /\ call' = [call EXCEPT ![p].pc = "remove"]
    /\ UNCHANGED <<nodes, next_node, next_chan, calls_started, mgrVars, restVars, ideal>>

\* destroy_player: node.events_sender.remove_async(&guild_id), Ok
destroy_player_remove(p) ==
    /\ call[p].pc = "remove"
    /\ events_sender' = [events_sender EXCEPT ![call[p].node] =
                            Remove(@, call[p].guild_id)]
    /\ call' = [call EXCEPT ![p].pc = "idle", ![p].held = "", ![p].result = "Ok"]
    /\ UNCHANGED <<nodes, next_node, chan, next_chan, calls_started, restVars, ideal,
                   manager, session_id, connection, handshake, reply, last_ready,
                   last_stats>>

\* Player::destroy on the player of tenant t whose node is manager m's: the
\* Rest destroy_player of its node, and nothing else
Player_destroy_unsubscribing(m, t, http_ok) ==
    /\ Contains(events_sender[m], t)
    /\ Len(rest_log) < MaxRest
    /\ LET r == RestRequest("destroy_player", m, http_ok)
       IN  /\ rest_log' = Append(rest_log, [node |-> m, op |-> "destroy_player",
                                            result |-> r.result, url |-> r.url,
                                            guild_id |-> t])
           /\ http_requests' = http_requests + Executed(r)
    /\ chan' = [chan EXCEPT ![events_sender[m][t]] = Append(@, "Destroyed")]
    /\ events_sender' = [events_sender EXCEPT ![m] = Remove(@, t)]
    /\ UNCHANGED <<manager, session_id, connection, handshake, reply, last_ready,
                   last_stats, nodes, next_node, next_chan, call, calls_started, ideal>>
Player_destroy(m, t, http_ok) ==
    /\ Contains(events_sender[m], t)
    /\ Len(rest_log) < MaxRest
    /\ LET r == RestRequest("destroy_player", m, http_ok)
       IN  /\ rest_log' = Append(rest_log, [node |-> m, op |-> "destroy_player",
                                            result |-> r.result, url |-> r.url,
                                            guild_id |-> t])
           /\ http_requests' = http_requests + Executed(r)
    /\ UNCHANGED <<mgrVars, regVars, ideal>>

\* Anchorage::disconnect is called
Anchorage_disconnect(p, nm, destroy) ==
    /\ call[p].pc = "idle"
    /\ calls_started < MaxCalls
    /\ call' = [call EXCEPT ![p] = [Idle EXCEPT !.op = "disconnect", !.pc = "entry",
                                                !.name = nm, !.destroy = destroy]]
    /\ calls_started' = calls_started + 1
    /\ UNCHANGED <<nodes, next_node, chan, next_chan, mgrVars, restVars, ideal>>
    /\ UNCHANGED <<queueVars, appVars>>

\* disconnect: self.nodes.get_async(name), the entry stays held by the call
disconnect_get(p) ==
    /\ call[p].pc = "entry"
    /\ IF call[p].name \in DOMAIN nodes
       THEN /\ ~Locked(call[p].name, p)
            /\ call' = [call EXCEPT ![p].pc = "disconnect", ![p].held = call[p].name,
                                    ![p].node = nodes[call[p].name]]
       ELSE call' = [call EXCEPT ![p].pc = "idle", ![p].result = "Ok"]
    /\ UNCHANGED <<nodes, next_node, chan, next_chan, calls_started, mgrVars,
                   restVars, ideal>>
    /\ UNCHANGED <<queueVars, appVars>>

\* disconnect: node.disconnect(), then node.destroy(): the command is sent
disconnect_send(p) ==
    /\ call[p].pc \in {"disconnect", "destroy"}
    /\ send_async(call[p].node, IF call[p].pc = "disconnect" THEN "Disconnect"
                                                            ELSE "Destroy")
    /\ call' = [call EXCEPT ![p].pc = IF call[p].pc = "disconnect"
                                      THEN "await_disconnect" ELSE "await_destroy",
                            ![p].awaits = Len(sent[call[p].node]) + 1]
    /\ UNCHANGED <<nodes, next_node, chan, next_chan, calls_started, mgrVars,
                   restVars, ideal, appVars>>

\* the command of a call was answered on its reply channel
Answered(m, id) == \E i \in 1..Len(replied[m]) : replied[m][i].id = id

\* what a suspended disconnect call waits for: the reply (or the loss) of the
\* command it sent, or, in self.nodes.remove_async(name), the release of the
\* entry of that name by whoever holds it, this call included
Resumes(p) ==
    IF call[p].pc = "remove"
    THEN \A q \in Tasks : call[q].held # call[p].name
    ELSE \/ Answered(call[p].node, call[p].awaits)
         \/ call[p].awaits \in failed[call[p].node]

\* disconnect resumes after an await: receiver.await gives the reply or the
\* error of a dropped reply channel; remove_async gives back the removed entry
disconnect_await(p) ==
    /\ call[p].pc \in {"await_disconnect", "await_destroy", "remove"}
    /\ Resumes(p)
    /\ call' = IF call[p].pc = "remove"
               THEN [call EXCEPT ![p].pc = "idle", ![p].held = "", ![p].result = "Ok"]
               ELSE IF ~Answered(call[p].node, call[p].awaits)
               THEN [call EXCEPT ![p].pc = "idle", ![p].held = "",
                                 ![p].result = "ChannelRecvError"]
               ELSE IF call[p].pc = "await_destroy"
               THEN [call EXCEPT ![p].pc = "remove"]
               ELSE IF call[p].destroy
               THEN [call EXCEPT ![p].pc = "destroy"]
               ELSE [call EXCEPT ![p].pc = "idle", ![p].held = "", ![p].result = "Ok"]
    /\ nodes' = IF call[p].pc = "remove" THEN Remove(nodes, call[p].name) ELSE nodes
    /\ UNCHANGED <<next_node, chan, next_chan, calls_started, mgrVars, restVars, ideal>>
    /\ UNCHANGED <<queueVars, appVars>>

\* one step of a running Anchorage::disconnect call
disconnect_step(p) ==
    \/ disconnect_get(p)
    \/ disconnect_send(p)
    \/ disconnect_await(p)

\* ------------------------------------------------------------ the player
\* three of the eleven fields of LavalinkFilters, each an Option; merge treats
\* all eleven alike
FilterFields == {"volume", "equalizer", "karaoke"}
FilterValues == {None} \cup {Some(v) : v \in 1..MaxFilterValue}
Filters == [FilterFields -> FilterValues]

\* Option::or: the option itself when it is Some, else the argument
Option_or(a, b) == IF a # None THEN a ELSE b

\* LavalinkFilters::merge: self.f = other.f.or(self.f), field by field
merge(self, other) == [f \in FilterFields |-> Option_or(other[f], self[f])]

\* Player::update_filters: filters.merge(data.filters), then the merged filters
\* are the ones of the update submitted
update_filters ==
    /\ filters.pc = "idle"
    /\ filters' = [filters EXCEPT !.pc = "done",
                                  !.submitted = merge(filters.new, filters.existing)]
    /\ UNCHANGED <<mgrVars, regVars, restVars, ideal, queueVars, starting, stream>>

\* ------------------------------------------------- the stream connection
\* the producer tasks one Connection spawns, one per successful connect
Producers == 1..MaxStreamCalls

\* Connection::new: no handle, nothing sent; the caller is in no call
Connection_new ==
    [handle |-> 0, taken |-> 0, pc |-> "idle", calls |-> 0, spawned |-> 0,
     task |-> [id \in Producers |-> "unborn"], aborted |-> {}, sent |-> <<>>]

\* a producer task is alive from its spawn until it has finished: in its loop
\* ("running") or past the break after its error ("ending")
ProducerAlive(id) == stream.task[id] \in {"running", "ending"}

\* JoinHandle::is_finished
is_finished_always(id) == TRUE
is_finished(id) == stream.task[id] = "finished"

\* Connection::available: a handle is held and its task has not finished
Connection_available == stream.handle # 0 /\ ~is_finished(stream.handle)

\* Connection::disconnect up to its first await: without a handle it returns,
\* else it takes the handle and aborts the task
Connection_disconnect_take(after) ==
    IF stream.handle = 0
    THEN [stream EXCEPT !.calls = @ + 1, !.pc = after]
    ELSE [stream EXCEPT !.calls = @ + 1, !.pc = after \o "_wait",
                        !.taken = stream.handle, !.handle = 0,
                        !.aborted = @ \cup {stream.handle}]

\* Connection::disconnect is called
Connection_disconnect ==
    /\ stream.pc = "idle"
    /\ stream.calls < MaxStreamCalls
    /\ stream' = Connection_disconnect_take("idle")
    /\ UNCHANGED <<mgrVars, regVars, restVars, ideal, queueVars, filters, starting>>

\* Connection::connect is called: self.disconnect().await comes first
Connection_connect ==
    /\ stream.pc = "idle"
    /\ stream.calls < MaxStreamCalls
    /\ stream' = Connection_disconnect_take("new")
    /\ UNCHANGED <<mgrVars, regVars, restVars, ideal, queueVars, filters, starting>>

\* the loop of Connection::disconnect ends once the aborted task has finished
disconnect_wait ==
    /\ stream.pc \in {"idle_wait", "new_wait"}
    /\ is_finished(stream.taken)
    /\ stream' = [stream EXCEPT !.pc = IF @ = "idle_wait" THEN "idle" ELSE "new",
                                !.taken = 0]
    /\ UNCHANGED <<mgrVars, regVars, restVars, ideal, queueVars, filters, starting>>

\* ConnectionManager::new(request).await? and, on success, the spawn of the
\* producer task whose handle is stored
ConnectionManager_new(ok) ==
    /\ stream.pc = "new"
    /\ stream' = IF ok
                 THEN [stream EXCEPT !.pc = "idle", !.spawned = @ + 1,
                                     !.handle = stream.spawned + 1,
                                     !.task[stream.spawned + 1] = "running"]
                 ELSE [stream EXCEPT !.pc = "idle"]
    /\ UNCHANGED <<mgrVars, regVars, restVars, ideal, queueVars, filters, starting>>

\* the producer's loop: get_message, then the result is sent; after an Err the
\* task breaks out of the loop.  An aborted task runs until its next yield.
get_message(id, kind) ==
    /\ stream.task[id] = "running"
    /\ Len(stream.sent) < MaxPublished
    /\ stream' = [stream EXCEPT !.sent = Append(@, [id |-> id, kind |-> kind]),
                                !.task[id] = IF kind = "Err" THEN "ending" ELSE @]
    /\ UNCHANGED <<mgrVars, regVars, restVars, ideal, queueVars, filters, starting>>

\* the producer task finishes: after its break, or cancelled by the abort
producer_finished(id) ==
    /\ stream.task[id] = "ending" \/ (stream.task[id] = "running" /\ id \in stream.aborted)
    /\ stream' = [stream EXCEPT !.task[id] = "finished"]
    /\ UNCHANGED <<mgrVars, regVars, restVars, ideal, queueVars, filters, starting>>

\* ------------------------------------------------------- get_ideal_node
RECURSIVE Perms(_)
Perms(S) == IF S = {} THEN {<<>>}
            ELSE UNION {{<<x>> \o q : q \in Perms(S \ {x})} : x \in S}

Handles == {nodes[nm] : nm \in DOMAIN nodes}

IdealIdle == [pc |-> "idle", order |-> <<>>, penalties |-> 0, selected |-> None,
              seen |-> <<>>, result |-> "none"]

\* get_ideal_node: scan_async pushes a clone of every handle, in the map's order
get_ideal_node(order) ==
    /\ ideal.pc = "idle"
    /\ order \in Perms(Handles)
    /\ ideal' = [IdealIdle EXCEPT !.pc = "loop", !.order = order]
    /\ UNCHANGED <<mgrVars, regVars, restVars>>

\* get_ideal_node, the test of its loop
Selects(penalties, data) == penalties >= data.penalties

\* get_ideal_node, one turn of its loop: node.data() answered by the manager
get_ideal_node_data ==
    /\ ideal.pc = "loop"
    /\ Len(ideal.seen) < Len(ideal.order)
    /\ LET m == ideal.order[Len(ideal.seen) + 1]
           data == NodeManagerData(m)
       IN  /\ manager[m].pc = "recv"
           /\ ideal' = [ideal EXCEPT
                   !.selected = IF Selects(ideal.penalties, data) THEN Some(m) ELSE @,
                   !.penalties = data.penalties,
                   !.seen = Append(@, data.penalties)]
    /\ UNCHANGED <<mgrVars, regVars, restVars>>

\* get_ideal_node, the match on selected_node
get_ideal_node_return ==
    /\ ideal.pc = "loop"
    /\ Len(ideal.seen) = Len(ideal.order)
    /\ ideal' = [ideal EXCEPT !.pc = "idle",
                    !.result = IF ideal.selected = None THEN "NoNodesAvailable" ELSE "Ok"]
    /\ UNCHANGED <<mgrVars, regVars, restVars>>

\* ------------------------------------------------------- specifications
NoFilters == [pc |-> "idle", new |-> None, existing |-> None, submitted |-> None]
NotStarting == [pc |-> "idle", list |-> <<>>, pos |-> 0, first |-> 0, result |-> "none"]

\* NodeManager::new: the three channels are empty
InitQueues ==
    /\ cmd_queue = [m \in Mgrs |-> <<>>]
    /\ msg_queue = [m \in Mgrs |-> <<>>]
    /\ node_queue = [m \in Mgrs |-> <<>>]
    /\ sent = [m \in Mgrs |-> <<>>]
    /\ dispatched = [m \in Mgrs |-> <<>>]
    /\ replied = [m \in Mgrs |-> <<>>]
    /\ arrived = [m \in Mgrs |-> <<>>]
    /\ failed = [m \in Mgrs |-> {}]
    /\ in_reconnect = [m \in Mgrs |-> {}]
    /\ late = [m \in Mgrs |-> {}]

\* no update_filters call was made, no start call is running
InitApp ==
    /\ filters = NoFilters
    /\ starting = NotStarting
    /\ stream = Connection_new

\* Anchorage::new: an empty registry, no manager built
InitRegistry ==
    /\ nodes = EmptyMap
    /\ next_node = 0
    /\ manager = [m \in Mgrs |-> Unborn]
    /\ session_id = [m \in Mgrs |-> None]
    /\ events_sender = [m \in Mgrs |-> EmptyMap]
    /\ connection = [m \in Mgrs |-> "None"]
    /\ handshake = [m \in Mgrs |-> None]
    /\ reply = [m \in Mgrs |-> None]
    /\ chan = [c \in Chans |-> <<>>]
    /\ next_chan = 0
    /\ call = [p \in Tasks |-> Idle]
    /\ calls_started = 0
    /\ http_requests = 0
    /\ rest_log = <<>>
    /\ ideal = IdealIdle
    /\ last_ready = [m \in Mgrs |-> None]
    /\ last_stats = [m \in Mgrs |-> None]

Init == InitRegistry /\ InitQueues /\ InitApp

Born == {m \in Mgrs : manager[m].pc # "unborn"}

\* the frames the registry specifications dispatch
RegistryMessages == {[kind |-> "Ready", session_id |-> "s1"]}
                    \cup {[kind |-> "Event", guild_id |-> t, event |-> "TrackStartEvent"] :
                            t \in Tenants}

CallStep(p) ==
    \/ \E nm \in NodeNames : get_node_for_player(p, nm)
    \/ get_node_for_player_none(p)
    \/ \E ok \in BOOLEAN : Player_new(p, ok)
    \/ create_player_insert(p)
    \/ \E ok \in BOOLEAN : destroy_player_rest(p, ok)
    \/ destroy_player_send(p)
    \/ destroy_player_remove(p)

\* The registry with overlapping calls
Next ==
    \/ Direct(next_node < FleetSize /\ \E d \in FleetNames, ok \in BOOLEAN : start(d, ok))
    \/ Direct(\E m \in Born, msg \in RegistryMessages : handle_message(m, msg))
    \/ Direct(\E p \in Tasks, t \in Tenants, h \in Mgrs : create_player(p, t, h))
    \/ Direct(\E p \in Tasks, t \in Tenants : destroy_player(p, t))
    \/ Direct(\E p \in Tasks : CallStep(p))

Spec == Init /\ [][Next]_vars

\* The registry with calls that do not overlap: one starts when none is running
NextSeq ==
    \/ Direct(next_node < FleetSize /\ \E d \in FleetNames, ok \in BOOLEAN : start(d, ok))
    \/ Direct(\E m \in Born, msg \in RegistryMessages : handle_message(m, msg))
    \/ Direct(AllIdle /\ \E p \in Tasks, t \in Tenants, h \in Mgrs : create_player(p, t, h))
    \/ Direct(AllIdle /\ \E p \in Tasks, t \in Tenants : destroy_player(p, t))
    \/ Direct(\E p \in Tasks : CallStep(p))

SpecSeq == Init /\ [][NextSeq]_vars

\* get_ideal_node over a fleet whose managers dispatch Stats frames
IdealFrames == {f \in StatsFrames : f.players = 0 /\ f.frame_stats = None}

NextIdeal ==
    \/ Direct(\E d \in NodeNames, ok \in BOOLEAN : start(d, ok))
    \/ Direct(\E m \in Born, f \in IdealFrames : handle_message(m, [kind |-> "Stats", data |-> f]))
    \/ Direct(\E order \in Perms(Handles) : get_ideal_node(order))
    \/ Direct(get_ideal_node_data)
    \/ Direct(get_ideal_node_return)

SpecIdeal == Init /\ [][NextIdeal]_vars

\* One node after Anchorage::start: its manager, its connection and its Rest
InitNode ==
    /\ nodes = [nm \in {"A"} |-> 1]
    /\ next_node = 1
    /\ manager = [m \in Mgrs |-> IF m = 1 THEN NewManager("A") ELSE Unborn]
    /\ session_id = [m \in Mgrs |-> None]
    /\ events_sender = [m \in Mgrs |-> EmptyMap]
    /\ connection = [m \in Mgrs |-> IF m = 1 THEN "Alive" ELSE "None"]
    /\ handshake = [m \in Mgrs |-> IF m = 1 THEN Some("") ELSE None]
    /\ reply = [m \in Mgrs |-> None]
    /\ chan = [c \in Chans |-> <<>>]
    /\ next_chan = 0
    /\ call = [p \in Tasks |-> Idle]
    /\ calls_started = 0
    /\ http_requests = 0
    /\ rest_log = <<>>
    /\ ideal = IdealIdle
    /\ last_ready = [m \in Mgrs |-> None]
    /\ last_stats = [m \in Mgrs |-> None]
    /\ InitQueues
    /\ InitApp

ManagerStep(m) ==
    \/ \E cmd \in Commands : handle_command(m, cmd)
    \/ \E ok \in BOOLEAN : connect_attempt(m, ok)
    \/ connect_sleep(m)
    \/ send_players_destroy_clear(m)
    \/ start_cleanup(m)
    \/ producer_ends(m)
    \/ watcher(m)

\* the frames of the statistics specification: every Stats frame, and the others
StatsMessages ==
    {[kind |-> "Stats", data |-> f] : f \in StatsFrames}
    \cup {[kind |-> "Err"], [kind |-> "PlayerUpdate"],
          [kind |-> "Ready", session_id |-> "s1"]}

NextStats ==
    \/ Direct(\E m \in Born, msg \in StatsMessages : handle_message(m, msg))
    \/ Direct(\E m \in Born : ManagerStep(m))

SpecStats == InitNode /\ [][NextStats]_vars

\* the frames of the session specification: every kind, one Stats frame
SessionMessages ==
    {msg \in MessagesAll : msg.kind # "Stats"}
    \cup {[kind |-> "Stats", data |-> f] :
            f \in {g \in StatsFrames : g.players = 3 /\ g.system_load = 10
                                       /\ g.frame_stats = None}}

NextSession ==
    \/ Direct(\E m \in Born, msg \in SessionMessages : handle_message(m, msg))
    \/ Direct(\E m \in Born : ManagerStep(m))
    \/ Direct(\E m \in Born, op \in RestOps : rest_call(m, op, TRUE))

SpecSession == InitNode /\ [][NextSession]_vars

\* One node after Anchorage::start, a Ready frame and a create_player(1, ..)
\* that returned Ok: session s1, tenant 1 subscribed on channel 1
InitPlayer ==
    /\ nodes = [nm \in {"A"} |-> 1]
    /\ next_node = 1
    /\ manager = [m \in Mgrs |-> IF m = 1 THEN NewManager("A") ELSE Unborn]
    /\ session_id = [m \in Mgrs |-> IF m = 1 THEN Some("s1") ELSE None]
    /\ events_sender = [m \in Mgrs |-> IF m = 1 THEN Insert(EmptyMap, 1, 1) ELSE EmptyMap]
    /\ connection = [m \in Mgrs |-> IF m = 1 THEN "Alive" ELSE "None"]
    /\ handshake = [m \in Mgrs |-> IF m = 1 THEN Some("") ELSE None]
    /\ reply = [m \in Mgrs |-> None]
    /\ chan = [c \in Chans |-> <<>>]
    /\ next_chan = 1
    /\ call = [p \in Tasks |-> IF p = 1
                                THEN [Idle EXCEPT !.op = "create_player", !.guild_id = 1,
                                                  !.node = 1, !.chan = 1, !.result = "Ok"]
                                ELSE Idle]
    /\ calls_started = 1
    /\ http_requests = 1
    /\ rest_log = <<>>
    /\ ideal = IdealIdle
    /\ last_ready = [m \in Mgrs |-> IF m = 1 THEN Some("s1") ELSE None]
    /\ last_stats = [m \in Mgrs |-> None]

InitSubscribed == InitPlayer /\ InitQueues /\ InitApp

\* the frames the stream connection produces in the queue specification
QueueMessages ==
    {[kind |-> "Err"]}
    \cup {[kind |-> "Event", guild_id |-> 1, event |-> e] : e \in EventNames}
    \cup {[kind |-> "Event", guild_id |-> 2, event |-> "TrackStartEvent"]}

\* The manager fed by its queues: commands sent on the handle, frames produced
\* by the stream connection, the two forwarding tasks, and registry calls
NextQueue ==
    \/ \E m \in Born, cmd \in Commands : Node_command(m, cmd)
    \/ \E m \in Born : forward_command(m)
    \/ \E m \in Born, msg \in QueueMessages : producer(m, msg)
    \/ \E m \in Born : producer_finish(m)
    \/ \E m \in Born : forward_message(m)
    \/ \E m \in Born : handle(m)
    \/ \E m \in Born, ok \in BOOLEAN : InArm(m, connect_attempt(m, ok))
    \/ \E m \in Born : InArm(m, connect_sleep(m))
    \/ \E m \in Born : InArm(m, send_players_destroy_clear(m))
    \/ \E m \in Born : InArm(m, start_cleanup(m))
    \/ \E m \in Born : InArm(m, watcher(m))
    \/ Direct(calls_started < QueueCalls
              /\ \E t \in Tenants, h \in Mgrs : create_player(1, t, h))
    \/ Direct(calls_started < QueueCalls /\ \E t \in Tenants : destroy_player(1, t))
    \/ Direct(CallStep(1))

SpecQueue == InitSubscribed /\ [][NextQueue]_vars

\* the frames and the commands of the terminal specifications
TerminalMessages == {[kind |-> "Err"]}
                    \cup {[kind |-> "Event", guild_id |-> t, event |-> "TrackStartEvent"] :
                            t \in Tenants}
TerminalCommands == {"Disconnect", "Destroy"}

\* no manager is between the scan and the clear of send_players_destroy
NoneClearing == \A m \in Mgrs : manager[m].pc # "clear"

\* One node whose manager disconnects, is destroyed or gives up reconnecting
\* while registry calls run
NextTerminal ==
    \/ Direct(\E m \in Born, msg \in TerminalMessages : handle_message(m, msg))
    \/ Direct(\E m \in Born, cmd \in TerminalCommands : handle_command(m, cmd))
    \/ Direct(\E m \in Born, ok \in BOOLEAN : connect_attempt(m, ok))
    \/ Direct(\E m \in Born : connect_sleep(m))
    \/ Direct(\E m \in Born : send_players_destroy_clear(m))
    \/ Direct(\E m \in Born : start_cleanup(m))
    \/ Direct(\E m \in Born : producer_ends(m))
    \/ Direct(\E m \in Born : watcher(m))
    \/ Direct(\E p \in Tasks, t \in Tenants, h \in Mgrs : create_player(p, t, h))
    \/ Direct(\E p \in Tasks, t \in Tenants : destroy_player(p, t))
    \/ Direct(\E p \in Tasks : CallStep(p))

SpecTerminal == InitSubscribed /\ [][NextTerminal]_vars

\* The same, with the manager's terminal broadcast and the registry calls one
\* at a time: the manager starts a broadcast when no registry call is running,
\* and no registry call starts or goes on between a scan and its clear
NextTerminalSeq ==
    \/ Direct(\E m \in Born, msg \in TerminalMessages : handle_message(m, msg))
    \/ Direct(AllIdle /\ \E m \in Born, cmd \in TerminalCommands : handle_command(m, cmd))
    \/ Direct(\E m \in Born, ok \in BOOLEAN : connect_attempt(m, ok))
    \/ Direct(\E m \in Born : connect_sleep(m))
    \/ Direct(\E m \in Born : send_players_destroy_clear(m))
    \/ Direct(AllIdle /\ \E m \in Born : start_cleanup(m))
    \/ Direct(\E m \in Born : producer_ends(m))
    \/ Direct(\E m \in Born : watcher(m))
    \/ Direct(NoneClearing /\ AllIdle
              /\ \E p \in Tasks, t \in Tenants, h \in Mgrs : create_player(p, t, h))
    \/ Direct(NoneClearing /\ AllIdle /\ \E p \in Tasks, t \in Tenants : destroy_player(p, t))
    \/ Direct(NoneClearing /\ \E p \in Tasks : CallStep(p))

SpecTerminalSeq == InitSubscribed /\ [][NextTerminalSeq]_vars

\* One registered node, its manager fed by its queues, and Anchorage::disconnect
\* calls; every task that can take a step eventually takes one
NextRegistry ==
    \/ \E p \in Tasks, destroy \in BOOLEAN : Anchorage_disconnect(p, "A", destroy)
    \/ \E p \in Tasks : disconnect_step(p)
    \/ \E m \in Born : forward_command(m)
    \/ \E m \in Born : producer(m, [kind |-> "Err"])
    \/ \E m \in Born : producer_finish(m)
    \/ \E m \in Born : forward_message(m)
    \/ \E m \in Born : handle(m)
    \/ \E m \in Born, ok \in BOOLEAN : InArm(m, connect_attempt(m, ok))
    \/ \E m \in Born : InArm(m, connect_sleep(m))
    \/ \E m \in Born : InArm(m, send_players_destroy_clear(m))
    \/ \E m \in Born : InArm(m, start_cleanup(m))
    \/ \E m \in Born : InArm(m, watcher(m))

SpecRegistry == InitSubscribed /\ [][NextRegistry]_vars /\ WF_vars(NextRegistry)

\* ---------------------------------------------------------------- claims
\* the managers whose subscription map holds tenant t
Owners(t) == {m \in Mgrs : Contains(events_sender[m], t)}

\* C1: after any sequence of completed, non-overlapping create_player and
\* destroy_player calls, every tenant-id is in the subscription map of at most
\* one node.  (SpecSeq)
C1_UniqueOwnership ==
    AllIdle => \A t \in Tenants : Cardinality(Owners(t)) <= 1

\* C1 witness: two nodes are registered, a tenant is owned by one of them, and a
\* completed create_player for it on the other node was rejected
C1_Witness ==
    /\ AllIdle
    /\ \E p \in Tasks :
          /\ call[p].op = "create_player"
          /\ call[p].result = "CreateExistingPlayer"
          /\ Owners(call[p].guild_id) # {}
          /\ call[p].node \notin Owners(call[p].guild_id)
          /\ call[p].node \in Handles

\* C2 (as claimed): also when create_player calls overlap, a tenant-id is in
\* at most one node's subscription map.  (Spec)
C2_UniqueUnderOverlap ==
    \A t \in Tenants : \A m1, m2 \in Owners(t) : m1 = m2

\* C3: while tenant t is in the subscription map of a registered node, a step of
\* create_player(t, ..) either goes on with the scan of get_node_for_player or
\* fails with CreateExistingPlayer, and it executes no request and changes no
\* subscription map and no channel.  (SpecSeq)
C3_Step(p) ==
    (/\ call[p].op = "create_player"
     /\ call[p].pc = "scan"
     /\ call'[p] # call[p]
     /\ \E m \in Handles : call[p].guild_id \in DOMAIN events_sender[m])
    => /\ \/ call'[p].pc = "scan"
          \/ call'[p].pc = "idle" /\ call'[p].result = "CreateExistingPlayer"
       /\ http_requests' = http_requests
       /\ events_sender' = events_sender
       /\ chan' = chan
       /\ next_chan' = next_chan

C3_CreateExisting == [][\A p \in Tasks : C3_Step(p)]_vars

\* C3 witness: a create_player was rejected with CreateExistingPlayer while the
\* tenant's sender is still in its owner's map, after a request was executed
C3_Witness ==
    \E p \in Tasks :
        /\ call[p].op = "create_player"
        /\ call[p].pc = "idle"
        /\ call[p].result = "CreateExistingPlayer"
        /\ \E m \in Handles : /\ Contains(events_sender[m], call[p].guild_id)
                              /\ events_sender[m][call[p].guild_id] \in 1..next_chan
        /\ http_requests = 1

\* C4 (as claimed): when create_player(t, node, ..) returns Ok, the sender
\* under t in that node's map is the sender of the channel whose receiver is
\* returned, and node is a registered node holding t.  (Spec)
C4_Step(p) ==
    (call[p].pc = "insert" /\ call'[p].pc = "idle" /\ call'[p].result = "Ok")
    => /\ call[p].guild_id \in DOMAIN events_sender'[call[p].node]
       /\ events_sender'[call[p].node][call[p].guild_id] = call'[p].chan
       /\ \E nm \in DOMAIN nodes' : nodes'[nm] = call[p].node

C4_SenderIsReturned == [][\A p \in Tasks : C4_Step(p)]_vars

\* the least element of a non-empty sequence of numbers
SeqMin(q) == CHOOSE x \in {q[i] : i \in 1..Len(q)} : \A i \in 1..Len(q) : x <= q[i]

\* C5 (as claimed): when get_ideal_node returns a handle, the penalty it read for
\* that handle is the least of the penalties it read.  (SpecIdeal)
C5_IdealIsMinimum ==
    (ideal.pc = "idle" /\ ideal.result = "Ok")
    => \E i \in 1..Len(ideal.order) :
          /\ ideal.order[i] = ideal.selected[1]
          /\ ideal.seen[i] = SeqMin(ideal.seen)

\* C6 (as claimed): get_ideal_node returns NoNodesAvailable on an empty registry
\* and on no other.  (SpecIdeal)
C6_NoNodesIffEmpty ==
    (ideal.pc = "idle" /\ ideal.result # "none")
    => (ideal.result = "NoNodesAvailable" <=> ideal.order = <<>>)

\* the penalty of one Stats frame
FramePenalty(f) ==
    f.players + PowfRound(f.system_load)
    + (IF f.frame_stats = None THEN 0 ELSE f.frame_stats[1].deficit)
    + (IF f.frame_stats = None THEN 0 ELSE 2 * f.frame_stats[1].nulled)

\* what GetData must report after the frames dispatched so far
ExpectedData(m) ==
    IF last_stats[m] = None THEN [penalties |-> 0, statistics |-> None]
    ELSE [penalties |-> FramePenalty(last_stats[m][1]), statistics |-> last_stats[m]]

C7_Step(m) ==
    (reply'[m] # reply[m] /\ reply'[m] # None /\ reply'[m][1].cmd = "GetData")
    => reply'[m][1].data = ExpectedData(m)

\* C7: the snapshot of a manager, and every GetData reply, holds the penalty of
\* the last Stats frame dispatched and that frame as statistics; before any Stats
\* frame it holds penalty 0 and no statistics.  (SpecStats)
C7_PenaltyOfLastFrame ==
    /\ [](\A m \in Born : NodeManagerData(m) = ExpectedData(m))
    /\ [][\A m \in Born : C7_Step(m)]_vars

\* C7 witness: GetData reported the penalty 3 + 11 + 10 + 2 * 2 of one frame,
\* and the manager has dispatched another frame since
C7_Witness ==
    \E m \in Born :
        /\ reply[m] # None
        /\ reply[m][1].cmd = "GetData"
        /\ reply[m][1].data.penalties = 28
        /\ manager[m].statistics # reply[m][1].data.statistics
        /\ manager[m].penalties = 1

\* C8 (as claimed): the penalty of a node is never negative.  (SpecStats)
C8_PenaltyNonNegative == \A m \in Born : manager[m].penalties >= 0

C9_Step ==
    Len(rest_log') = Len(rest_log) + 1
    => LET e == rest_log'[Len(rest_log')]
       IN  (e.op \in SessionScoped /\ session_id[e.node] = None)
           => /\ e.result = "NoSessionId"
              /\ e.url = None
              /\ http_requests' = http_requests

\* C9: a session-scoped Rest operation called while session_id is absent fails
\* with NoSessionId and executes no HTTP request.  (SpecSession)
C9_SessionGate == [][C9_Step]_vars

\* C9 witness: destroy_player failed with NoSessionId and sent nothing; called
\* again after a Ready frame it executed the one request counted
C9_Witness ==
    /\ Len(rest_log) = 2
    /\ rest_log[1].op = "destroy_player" /\ rest_log[1].result = "NoSessionId"
    /\ rest_log[2].op = "destroy_player" /\ rest_log[2].result = "Ok"
    /\ http_requests = 1

C10_RestStep ==
    Len(rest_log') = Len(rest_log) + 1
    => LET e == rest_log'[Len(rest_log')]
       IN  (e.op \in SessionScoped /\ last_ready[e.node] # None)
           => e.url = Some([path |-> e.op, session |-> last_ready[e.node]])

C10_HandshakeStep(m) ==
    (manager[m].pc = "connect" /\ manager'[m] # manager[m])
    => handshake'[m] = Some(IF last_ready[m] = None THEN "" ELSE last_ready[m][1])

\* C10: session_id is absent until a Ready frame is dispatched and is then the
\* session_id of the last Ready frame dispatched, whatever else the manager
\* does; a session-scoped request goes to that session and a handshake sends it
\* (the empty string when absent) as Session-Id.  (SpecSession)
C10_SessionOfLastReady ==
    /\ [](\A m \in Born : session_id[m] = last_ready[m])
    /\ [][C10_RestStep /\ \A m \in Born : C10_HandshakeStep(m)]_vars

\* C10 witness: a request went to session s1, a later Ready frame brought s2,
\* and the manager reconnected sending s2
C10_Witness ==
    \E m \in Born :
        /\ session_id[m] = Some("s2")
        /\ handshake[m] = Some("s2")
        /\ available(m)
        /\ manager[m].pc = "recv"
        /\ \E i \in 1..Len(rest_log) :
              /\ rest_log[i].node = m
              /\ rest_log[i].url = Some([path |-> "get_player", session |-> Some("s1")])

\* the channels whose senders are in manager m's map
Senders(m) == {events_sender[m][t] : t \in DOMAIN events_sender[m]}

\* how many Destroyed values were sent on channel c
Destroyeds(c) == Len(SelectSeq(chan[c], LAMBDA v : v = "Destroyed"))

\* the scan of a terminal broadcast: one Destroyed on every channel of the map,
\* which had none before, and nothing on the others
C11_ScanStep(m) ==
    (manager[m].pc # "clear" /\ manager'[m].pc = "clear")
    => \A c \in Chans :
          IF c \in Senders(m)
          THEN Destroyeds(c) = 0 /\ chan'[c] = Append(chan[c], "Destroyed")
          ELSE chan'[c] = chan[c]

\* the clear that completes the step leaves the map empty
C11_ClearStep(m) ==
    (manager[m].pc = "clear" /\ manager'[m].pc # "clear")
    => events_sender'[m] = EmptyMap

\* a channel that got its Destroyed and is in a map being cleared, or in no
\* map any more, gets no further value
C11_NoFurther(c) ==
    (/\ Destroyeds(c) > 0
     /\ \A m \in Mgrs : c \in Senders(m) => manager[m].pc = "clear")
    => chan'[c] = chan[c]

\* C11: when the manager processes Disconnect or Destroy, or leaves its loop,
\* every subscription in the map gets exactly one Destroyed and nothing after
\* it, and the map is empty when the step is through; for a broadcast that no
\* registry call overlaps.  (SpecTerminalSeq)
C11_TerminalDelivery ==
    [][/\ \A m \in Born : C11_ScanStep(m) /\ C11_ClearStep(m)
       /\ \A c \in Chans : C11_NoFurther(c)]_vars

\* C11 witness: a subscriber got an event, then the Destroyed of a Disconnect,
\* and the manager, its map empty, acknowledged the command
C11_Witness ==
    /\ chan[1] = <<"TrackStartEvent", "Destroyed">>
    /\ events_sender[1] = EmptyMap
    /\ manager[1].pc = "recv"
    /\ reply[1] = Some([cmd |-> "Disconnect"])

\* C12 (as claimed): on every channel Destroyed is delivered at most once and
\* no Player event is delivered after it, whatever the interleaving of
\* destroy_player with the manager's dispatch and broadcasts.  (SpecTerminal)
C12_DestroyedOnceAndLast ==
    \A c \in Chans :
        /\ Destroyeds(c) <= 1
        /\ \A i \in 1..Len(chan[c]) : chan[c][i] = "Destroyed" => i = Len(chan[c])

\* C13 (as claimed): a sender is removed from a node's map only after Destroyed
\* was sent on its channel.  (SpecTerminal)
C13_Step(m) ==
    \A t \in DOMAIN events_sender[m] :
        t \notin DOMAIN events_sender'[m]
        => \E i \in 1..Len(chan'[events_sender[m][t]]) :
              chan'[events_sender[m][t]][i] = "Destroyed"

C13_NoSilentDrop == [][\A m \in Born : C13_Step(m)]_vars

\* C14: the commands sent on a node handle are dispatched by the manager in the
\* order they were sent, and their replies are sent in that order, however the
\* frames of the stream are merged with them.  (SpecQueue)
C14_CommandOrder ==
    \A m \in Born :
        /\ Len(replied[m]) <= Len(dispatched[m])
        /\ Len(dispatched[m]) <= Len(sent[m])
        /\ \A i \in 1..Len(dispatched[m]) :
              dispatched[m][i] = [id |-> i, cmd |-> sent[m][i]]
        /\ \A i \in 1..Len(replied[m]) :
              replied[m][i] = [id |-> i, cmd |-> sent[m][i]]

\* C14 witness: GetData then Disconnect were sent, an event frame was merged
\* and dispatched before the Disconnect, and both commands were answered
C14_Witness ==
    /\ sent[1] = <<"GetData", "Disconnect">>
    /\ Len(replied[1]) = 2
    /\ chan[1] = <<"TrackStartEvent", "Destroyed">>
    /\ reply[1] = Some([cmd |-> "Disconnect"])

\* the registered handles whose map holds tenant t: what get_node_for_player finds
RegisteredOwners(t) == Owners(t) \cap Handles

\* the steps of destroy_player(t) once it found the node holding t: the request,
\* then Destroyed on t's channel with t still in the map, then the removal,
\* after which no registered node holds t
C15_Step(p) ==
    LET t == call[p].guild_id
        m == call[p].node
    IN  call[p].op = "destroy_player"
        => /\ (call[p].pc = "rest" /\ call'[p].pc = "send")
              => /\ http_requests' = http_requests + 1
                 /\ chan' = chan
                 /\ events_sender' = events_sender
           /\ (call[p].pc = "send" /\ call'[p].pc # "send")
              => /\ call'[p].pc = "remove"
                 /\ t \in DOMAIN events_sender[m]
                 /\ chan' = [chan EXCEPT ![events_sender[m][t]] = Append(@, "Destroyed")]
                 /\ events_sender' = events_sender
                 /\ http_requests' = http_requests
           /\ (call[p].pc = "remove" /\ call'[p].pc # "remove")
              => /\ call'[p].pc = "idle" /\ call'[p].result = "Ok"
                 /\ events_sender' = [events_sender EXCEPT ![m] = Remove(@, t)]
                 /\ chan' = chan
                 /\ http_requests' = http_requests
                 /\ RegisteredOwners(t)' = {}

\* while no registered node holds t, create_player(t, ..) is not rejected
C15_CreateStep(p) ==
    (/\ call[p].op = "create_player"
     /\ call[p].pc = "scan"
     /\ RegisteredOwners(call[p].guild_id) = {})
    => call'[p].pc \in {"scan", "new"}

\* C15: destroy_player(t) on the node holding t, its request answered Ok, does
\* in this order the request, the Destroyed on t's channel, the removal of t;
\* then no node holds t and create_player(t, ..) is accepted.  (SpecSeq)
C15_DestroyOrder == [][\A p \in Tasks : C15_Step(p) /\ C15_CreateStep(p)]_vars

\* C15 witness: tenant t was created on channel 1, destroyed (channel 1 ends
\* with Destroyed) and created again, now on channel 2
C15_Witness ==
    \E t \in Tenants, m \in Handles :
        /\ Len(chan[1]) > 0 /\ chan[1][Len(chan[1])] = "Destroyed"
        /\ Contains(events_sender[m], t) /\ events_sender[m][t] = 2
        /\ http_requests = 3
        /\ \E p \in Tasks : /\ call[p].op = "create_player" /\ call[p].pc = "idle"
                              /\ call[p].result = "Ok" /\ call[p].guild_id = t

\* C16: destroy_player(t) while no registered node holds t returns Ok, executes
\* no request, sends nothing on any channel and changes no map: no step of its
\* search does, and the search ends with Ok.  (Spec)
C16_Step(p) ==
    (/\ call[p].op = "destroy_player"
     /\ call[p].pc = "scan"
     /\ call'[p] # call[p]
     /\ RegisteredOwners(call[p].guild_id) = {})
    => /\ \/ call'[p].pc = "scan"
          \/ call'[p].pc = "idle" /\ call'[p].result = "Ok"
       /\ http_requests' = http_requests
       /\ events_sender' = events_sender
       /\ chan' = chan

C16_DoubleDestroy == [][\A p \in Tasks : C16_Step(p)]_vars

\* C16 witness: tenant t was created and destroyed, and a second
\* destroy_player(t) returned Ok having found no node and sent nothing
C16_Witness ==
    \E p \in Tasks :
        /\ call[p].op = "destroy_player" /\ call[p].pc = "idle"
        /\ call[p].result = "Ok" /\ call[p].node = 0
        /\ call[p].scanned = DOMAIN nodes /\ Cardinality(DOMAIN nodes) = 2
        /\ chan[1] = <<"Destroyed">>
        /\ http_requests = 2
        /\ calls_started = 3
        /\ Owners(call[p].guild_id) = {}

\* C17: when the manager dispatches Event(e) for tenant t, it sends Player(e)
\* once on the channel its map holds under t and on no other, or nothing when
\* the map does not hold t; nothing else changes.  (SpecQueue)
C17_Step(m) ==
    (/\ manager[m].pc = "recv"
     /\ node_queue[m] # <<>>
     /\ node_queue'[m] = Tail(node_queue[m])
     /\ Head(node_queue[m]).type = "Message"
     /\ Head(node_queue[m]).msg.kind = "Event")
    => LET e == Head(node_queue[m]).msg
       IN  /\ IF Contains(events_sender[m], e.guild_id)
              THEN chan' = [chan EXCEPT ![events_sender[m][e.guild_id]] =
                                Append(@, e.event)]
              ELSE chan' = chan
           /\ UNCHANGED <<manager, session_id, events_sender, connection, handshake,
                          reply, nodes>>

C17_EventRouting == [][\A m \in Born : C17_Step(m)]_vars

\* C17 witness: an event for tenant 2, which no map holds, then one for tenant
\* 1 were dispatched: channel 1 holds the one event, nothing else was sent
C17_Witness ==
    /\ arrived[1] = <<[kind |-> "Event", guild_id |-> 2, event |-> "TrackStartEvent"],
                      [kind |-> "Event", guild_id |-> 1, event |-> "TrackEndEvent"]>>
    /\ msg_queue[1] = <<>> /\ node_queue[1] = <<>>
    /\ DOMAIN events_sender[1] = {1}
    /\ chan[1] = <<"TrackEndEvent">>
    /\ \A c \in Chans \ {1} : chan[c] = <<>>

\* a is a subsequence of b, in the same order
RECURSIVE IsSubseq(_, _)
IsSubseq(a, b) ==
    IF a = <<>> THEN TRUE
    ELSE IF b = <<>> THEN FALSE
    ELSE IF Head(a) = Head(b) THEN IsSubseq(Tail(a), Tail(b))
    ELSE IsSubseq(a, Tail(b))

\* the Player events sent on channel c, and the events of a sequence of frames
Players(c) == SelectSeq(chan[c], LAMBDA v : v # "Destroyed")
EventsOf(q) == [i \in 1..Len(q) |-> q[i].event]

\* a channel that is in no map gets no Player event
C18_Step(c) ==
    (\A m \in Mgrs : c \notin Senders(m)) => Players(c)' = Players(c)

\* C18: the Player events a subscriber received are, in the same order, among
\* the event frames for its tenant that arrived on the node's stream: so it is
\* while its sender is in the map, and once it is out no event is added.
\* (SpecQueue)
C18_EventOrder ==
    /\ [](\A m \in Born : \A t \in DOMAIN events_sender[m] :
            IsSubseq(Players(events_sender[m][t]), EventsOf(EventsFor(arrived[m], t))))
    /\ [][\A c \in Chans : C18_Step(c)]_vars

\* C18 witness: two event frames for tenant 1 arrived and its subscriber got
\* both, in the order of arrival
C18_Witness ==
    /\ arrived[1] = <<[kind |-> "Event", guild_id |-> 1, event |-> "TrackEndEvent"],
                      [kind |-> "Event", guild_id |-> 1, event |-> "TrackStartEvent"]>>
    /\ events_sender[1] = Insert(EmptyMap, 1, 1)
    /\ chan[1] = <<"TrackEndEvent", "TrackStartEvent">>

\* connect returns an error: the step that leaves its loop with no connection
C19_ReturnStep(m) ==
    (/\ manager[m].pc = "connect"
     /\ manager'[m].pc \notin {"connect", "sleep"}
     /\ ~available(m)')
    => /\ manager'[m].attempts = ReconnectTries
       /\ manager'[m].sleeps = ReconnectTries - 1
       /\ manager'[m].reconnects = 0
       /\ IF manager[m].cont = "Connect"
          THEN reply'[m] = Some([cmd |-> "Connect", result |-> "Err"])
          ELSE manager'[m].pc = "exit"

\* C19: with reconnect_tries = n and every handshake failing, a call of
\* connect makes exactly n attempts, sleeps after each but the last (n - 1
\* sleeps), and returns the error with reconnects back at 0.  (SpecSession)
C19_ReconnectExhaustion ==
    /\ [](\A m \in Born :
            /\ manager[m].pc = "connect"
               => /\ manager[m].attempts < ReconnectTries
                  /\ manager[m].sleeps = manager[m].attempts
                  /\ manager[m].reconnects = manager[m].attempts
            /\ manager[m].pc = "sleep"
               => /\ manager[m].attempts < ReconnectTries
                  /\ manager[m].sleeps = manager[m].attempts - 1
                  /\ manager[m].reconnects = manager[m].attempts
            /\ manager[m].pc \notin {"connect", "sleep"} => manager[m].reconnects = 0)
    /\ [][\A m \in Born : C19_ReturnStep(m)]_vars

\* C19 witness: a Connect command was answered with the error after n failed
\* attempts and n - 1 sleeps
C19_Witness ==
    \E m \in Born :
        /\ reply[m] = Some([cmd |-> "Connect", result |-> "Err"])
        /\ manager[m].pc = "recv"
        /\ manager[m].attempts = ReconnectTries
        /\ manager[m].sleeps = ReconnectTries - 1
        /\ manager[m].reconnects = 0
        /\ ~available(m)

\* the manager's task was spawned and has not returned
Live(m) == manager[m].pc \notin {"unborn", "exited"}

\* C20 (as claimed): at most one manager task per node name is live, also after
\* a start that names a node twice or reuses a registered name.  (Spec)
C20_OneManagerPerName ==
    \A m1, m2 \in Mgrs :
        (Live(m1) /\ Live(m2) /\ manager[m1].name = manager[m2].name) => m1 = m2

\* C21 (as claimed): when start built two nodes of one name (and did not reject
\* the call), the registry maps the name to the one built last.  (Spec)
C21_LastWriterWins ==
    \A nm \in DOMAIN nodes :
        \A m \in Born : manager[m].name = nm => m <= nodes[nm]

\* the manager task ended, or is ending, on an error and not on its destroyed flag
Fatal(m) == /\ ~manager[m].destroyed
            /\ manager[m].pc \in {"exit", "exited"} \/ manager[m].cont = "Exit"

\* the frames of the reconnect specification
ReconnectMessages == {[kind |-> "Err"],
                      [kind |-> "Event", guild_id |-> 1, event |-> "TrackStartEvent"]}

\* One node whose stream fails while data() is called on its handle: the
\* producer, the two forwarding tasks and the manager; every task that can
\* take a step eventually takes one
NextReconnect ==
    \/ \E m \in Born : Node_command(m, "GetData")
    \/ \E m \in Born : forward_command(m)
    \/ \E m \in Born, msg \in ReconnectMessages : producer(m, msg)
    \/ \E m \in Born : producer_finish(m)
    \/ \E m \in Born : forward_message(m)
    \/ \E m \in Born : handle(m)
    \/ \E m \in Born, ok \in BOOLEAN : InArm(m, connect_attempt(m, ok))
    \/ \E m \in Born : InArm(m, connect_sleep(m))
    \/ \E m \in Born : InArm(m, send_players_destroy_clear(m))
    \/ \E m \in Born : InArm(m, start_cleanup(m))
    \/ \E m \in Born : InArm(m, watcher(m))

SpecReconnect == InitSubscribed /\ [][NextReconnect]_vars /\ WF_vars(NextReconnect)

\* the values of Options.reconnect_tries: none, the smallest, the default
TriesValues == {0, 1, ReconnectTries, U16Max}

\* one node built with each value of reconnect_tries
InitTries ==
    /\ \E tries \in TriesValues :
          manager = [m \in Mgrs |-> IF m = 1
                                    THEN [NewManager("A") EXCEPT !.reconnect_tries = tries]
                                    ELSE Unborn]
    /\ nodes = [nm \in {"A"} |-> 1]
    /\ next_node = 1
    /\ session_id = [m \in Mgrs |-> None]
    /\ events_sender = [m \in Mgrs |-> EmptyMap]
    /\ connection = [m \in Mgrs |-> IF m = 1 THEN "Alive" ELSE "None"]
    /\ handshake = [m \in Mgrs |-> IF m = 1 THEN Some("") ELSE None]
    /\ reply = [m \in Mgrs |-> None]
    /\ chan = [c \in Chans |-> <<>>]
    /\ next_chan = 0
    /\ call = [p \in Tasks |-> Idle]
    /\ calls_started = 0
    /\ http_requests = 0
    /\ rest_log = <<>>
    /\ ideal = IdealIdle
    /\ last_ready = [m \in Mgrs |-> None]
    /\ last_stats = [m \in Mgrs |-> None]
    /\ InitQueues
    /\ InitApp

\* The reconnect procedure of one node under each reconnect_tries: the stream
\* ends, connect() runs for a Connect command or for the stream's error
NextTries ==
    \/ Direct(\E m \in Born : producer_ends(m))
    \/ Direct(\E m \in Born : handle_command(m, "Connect"))
    \/ Direct(\E m \in Born : handle_message(m, [kind |-> "Err"]))
    \/ Direct(\E m \in Born, ok \in BOOLEAN : connect_attempt(m, ok))
    \/ Direct(\E m \in Born : connect_sleep(m))

SpecTries == InitTries /\ [][NextTries]_vars

\* the handle of manager m is in the registry (a handle that insert_async
\* did not take is dropped by start)
Registered(m) == \E nm \in DOMAIN nodes : nodes[nm] = m

\* A fleet started node by node, names repeated or not: the managers are
\* disconnected and destroyed through the registered handles, and end when
\* their stream fails and cannot be opened again
NextFleet ==
    \/ Direct(\E d \in FleetNames, ok \in BOOLEAN : start(d, ok))
    \/ Direct(\E m \in Born, cmd \in TerminalCommands :
                Registered(m) /\ handle_command(m, cmd))
    \/ Direct(\E m \in Born : producer_ends(m))
    \/ Direct(\E m \in Born : handle_message(m, [kind |-> "Err"]))
    \/ Direct(\E m \in Born : connect_attempt(m, FALSE))
    \/ Direct(\E m \in Born : connect_sleep(m))
    \/ Direct(\E m \in Born : send_players_destroy_clear(m))
    \/ Direct(\E m \in Born : start_cleanup(m))
    \/ Direct(\E m \in Born : watcher(m))

SpecFleet == Init /\ [][NextFleet]_vars

\* the lists of descriptors of a start call, by their names
RECURSIVE Lists(_)
Lists(n) == IF n = 0 THEN {<<>>}
            ELSE Lists(n - 1) \cup {Append(l, d) : l \in Lists(n - 1), d \in NodeNames}

\* One Anchorage::start call on an empty registry, while the nodes built so far
\* get their frames
NextStart ==
    \/ \E list \in Lists(MaxNodes) : Anchorage_start(list)
    \/ \E ok \in BOOLEAN : start_node(ok)
    \/ \E m \in Born, msg \in RegistryMessages :
          handle_message(m, msg) /\ UNCHANGED <<queueVars, appVars>>

SpecStart == Init /\ [][NextStart]_vars

\* The players of one node: Player::destroy on a player's handle, the node's
\* events, and registry calls
NextPlayer ==
    \/ Direct(\E m \in Born, t \in Tenants, ok \in BOOLEAN : Player_destroy(m, t, ok))
    \/ Direct(\E m \in Born, msg \in RegistryMessages : handle_message(m, msg))
    \/ Direct(\E p \in Tasks, t \in Tenants, h \in Mgrs : create_player(p, t, h))
    \/ Direct(\E p \in Tasks, t \in Tenants : destroy_player(p, t))
    \/ Direct(\E p \in Tasks : CallStep(p))

SpecPlayer == InitSubscribed /\ [][NextPlayer]_vars

\* update_filters called with every argument, the node holding every filters
InitFilters ==
    /\ InitPlayer
    /\ InitQueues
    /\ starting = NotStarting
    /\ stream = Connection_new
    /\ \E n \in Filters, e \in Filters :
          filters = [pc |-> "idle", new |-> n, existing |-> e, submitted |-> None]

NextFilters == update_filters

SpecFilters == InitFilters /\ [][NextFilters]_vars

\* one Connection, its caller and its producer tasks
NextStream ==
    \/ Connection_connect
    \/ Connection_disconnect
    \/ disconnect_wait
    \/ \E ok \in BOOLEAN : ConnectionManager_new(ok)
    \/ \E id \in Producers, kind \in {"Ok", "Err"} : get_message(id, kind)
    \/ \E id \in Producers : producer_finished(id)

SpecStream == Init /\ [][NextStream]_vars

\* C22 (as claimed): a disconnect(name, destroy = true) that found the entry of
\* a node whose manager is running eventually returns Ok, the name no longer a
\* key of the registry (unless the manager ends on a fatal stream error
\* meanwhile).  (SpecRegistry)
C22_DisconnectReturns ==
    \A p \in Tasks :
        (/\ call[p].pc = "disconnect"
         /\ call[p].destroy
         /\ manager[call[p].node].pc = "recv")
        ~> \/ /\ call[p].pc = "idle"
              /\ call[p].result = "Ok"
              /\ "A" \notin DOMAIN nodes
           \/ \E m \in Born : Fatal(m)

\* C23 (as claimed): whenever a manager task has ended, eventually its name is
\* no key of the registry and every subscription of its map got Destroyed.
\* (SpecRegistry)
C23_ExitCleansUp ==
    \A m \in Mgrs :
        (manager[m].pc = "exited")
        ~> (/\ manager[m].name \notin DOMAIN nodes
            /\ events_sender[m] = EmptyMap)

\* the commands of a queue, by their numbers
Ids(q) == {q[i].id : i \in 1..Len(q)}
QueuedIds(q) == {q[i].id : i \in {j \in 1..Len(q) : q[j].type = "Command"}}

\* C24, steps: a manager whose task has ended dispatches nothing and answers
\* nothing any more.
C24_Step ==
    \A m \in Mgrs :
        manager[m].pc = "exited"
        => /\ manager'[m].pc = "exited"
           /\ dispatched'[m] = dispatched[m]
           /\ replied'[m] = replied[m]
           /\ node_queue'[m] = node_queue[m]

\* C24: once a manager task has ended it dispatches no further item, and every
\* command sent on a clone of its handle afterwards is neither dispatched nor
\* answered: when the forwarding task takes it the send fails and the command
\* is dropped with its reply channel, which ends the caller's wait with the
\* channel's receive error.  (SpecQueue)
C24_AfterExit ==
    /\ [](\A m \in Mgrs : \A id \in late[m] :
            /\ id \notin Ids(dispatched[m]) \cup Ids(replied[m]) \cup QueuedIds(node_queue[m])
            /\ id \in Ids(cmd_queue[m]) \cup failed[m])
    /\ [][C24_Step]_vars

\* C24 witness: a command sent after the manager task ended was dropped, its
\* caller left with the receive error
C24_Witness ==
    \E m \in Mgrs : late[m] \cap failed[m] # {}

\* C25 (as claimed): in every field the filters update_filters submits hold the
\* new value when it is Some and the existing value when the new one is None.
\* (SpecFilters)
C25_NewWins ==
    filters.pc = "done"
    => \A f \in FilterFields :
          filters.submitted[f] = IF filters.new[f] # None THEN filters.new[f]
                                 ELSE filters.existing[f]

\* a step is a Player::destroy: the log gets the record of a player's request
PlayerDestroyed ==
    /\ Len(rest_log') = Len(rest_log) + 1
    /\ "guild_id" \in DOMAIN rest_log'[Len(rest_log')]

\* C26: Player::destroy issues the Rest destroy_player of its node and nothing
\* else: the subscription maps keep their entries, no channel gets a Destroyed
\* (or anything), the registry and the managers are as before.  (SpecPlayer)
C26_Step ==
    PlayerDestroyed
    => /\ rest_log'[Len(rest_log')].op = "destroy_player"
       /\ events_sender' = events_sender
       /\ chan' = chan
       /\ nodes' = nodes
       /\ manager' = manager
C26_DestroyFrame == [][C26_Step]_vars

\* C26 witness: the player of a tenant was destroyed on the node with success,
\* the tenant is still subscribed, its channel holds no Destroyed
C26_Witness ==
    \E i \in 1..Len(rest_log) :
        /\ "guild_id" \in DOMAIN rest_log[i]
        /\ rest_log[i].result = "Ok"
        /\ Contains(events_sender[rest_log[i].node], rest_log[i].guild_id)
        /\ Destroyeds(events_sender[rest_log[i].node][rest_log[i].guild_id]) = 0

\* the descriptors of the running or finished start call before position k
Before(k) == {i \in 1..Len(starting.list) : i < k}

\* C27: start takes the descriptors in order, and when the first connect of the
\* descriptor at position k fails it returns that error: no manager was built
\* for that descriptor or a later one and none of them put a name in the
\* registry, while the descriptors before k have their managers, built in
\* order and running, and their names registered.  (SpecStart)
C27_StartFailure ==
    (starting.pc = "done" /\ starting.result = "Err")
    => LET k == starting.pos
       IN  /\ next_node = starting.first + k - 1
           /\ \A m \in Mgrs : m > next_node => manager[m].pc = "unborn"
           /\ DOMAIN nodes = {starting.list[i] : i \in Before(k)}
           /\ \A i \in Before(k) :
                 /\ manager[starting.first + i].name = starting.list[i]
                 /\ manager[starting.first + i].pc = "recv"
                 /\ Live(nodes[starting.list[i]])
                 /\ manager[nodes[starting.list[i]]].name = starting.list[i]

\* C27 witness: start failed at its third descriptor, the first two are
\* registered
C27_Witness ==
    /\ starting.pc = "done"
    /\ starting.result = "Err"
    /\ starting.pos = 3
    /\ Cardinality(DOMAIN nodes) = 2

\* C28 (as claimed): once the producer of a manager's stream connection has
\* published a stream error, the manager eventually has an available stream
\* connection again (a producer that published no error) or its task ends.
\* (SpecReconnect)
C28_ReconnectsOrExits ==
    \A m \in Mgrs :
        (connection[m] = "Ending")
        ~> (connection[m] = "Alive" \/ manager[m].pc = "exited")

\* C29 (as claimed): a command sent on the handle while the manager is inside
\* the reconnect a stream error started is eventually dispatched and answered.
\* (SpecReconnect)
C29_NoCommandLost ==
    \A m \in Mgrs : \A id \in 1..MaxCommands :
        (id \in in_reconnect[m])
        ~> (id \in Ids(dispatched[m]) /\ Answered(m, id))

\* `self.reconnects += 1` stays within the 16 bits of the counter
NoOverflow(m) == manager[m].pc = "connect" => manager[m].reconnects + 1 <= U16Max

\* C30 (as claimed): a call of connect() makes at most reconnect_tries
\* handshake attempts, and the counter never exceeds reconnect_tries nor
\* overflows, for every reconnect_tries of 0..65535.  (SpecTries)
C30_AsClaimed ==
    \A m \in Born :
        /\ manager[m].attempts <= manager[m].reconnect_tries
        /\ manager[m].counted <= manager[m].reconnect_tries
        /\ manager[m].reconnects <= manager[m].reconnect_tries
        /\ NoOverflow(m)

\* the attempts a call of connect() makes at most: the first attempt is made
\* before reconnect_tries is looked at
MostAttempts(tries) == IF tries = 0 THEN 1 ELSE tries

\* C30 (amended): a call of connect() makes at most max(1, reconnect_tries)
\* handshake attempts, the counter never exceeds max(1, reconnect_tries), is
\* below reconnect_tries between two attempts, and never overflows its 16
\* bits, for every reconnect_tries of 0..65535.  (SpecTries)
C30_AttemptBound ==
    \A m \in Born :
        /\ manager[m].attempts <= MostAttempts(manager[m].reconnect_tries)
        /\ manager[m].counted <= MostAttempts(manager[m].reconnect_tries)
        /\ manager[m].pc = "sleep" => manager[m].reconnects < manager[m].reconnect_tries
        /\ manager[m].reconnects <= manager[m].reconnect_tries
        /\ NoOverflow(m)

\* C30 witness: with reconnect_tries 65535 a call of connect() has made its
\* 65535th attempt, the counter at 65535
C30_Witness ==
    \E m \in Born :
        /\ manager[m].reconnect_tries = U16Max
        /\ manager[m].attempts = U16Max
        /\ manager[m].counted = U16Max

\* C31, steps: a call of connect() starts with the counter at 0.
C31_Step ==
    \A m \in Born :
        (manager[m].pc = "recv" /\ manager'[m].pc = "connect")
        => manager'[m].reconnects = 0

\* C31: the counter of reconnect attempts is 0 whenever the manager waits on
\* its queue: after a connect that succeeded, after one that gave up, after a
\* Disconnect; so every call of connect() starts counting from 0.
\* (SpecSession)
C31_CounterReset ==
    /\ [](\A m \in Born : manager[m].pc = "recv" => manager[m].reconnects = 0)
    /\ [][C31_Step]_vars

\* C31 witness: the manager waits on its queue after a connect that succeeded
\* at its second attempt, the counter having been at 1 in between
C31_Witness ==
    \E m \in Born :
        /\ manager[m].pc = "recv"
        /\ manager[m].attempts = 2
        /\ manager[m].counted = 2
        /\ available(m)
        /\ manager[m].reconnects = 0

\* a producer task of manager m's stream connection is running
Running(m) == connection[m] \in {"Alive", "Ending"}

\* the step dispatches a command cmd of manager m
Dispatches(m, cmd) ==
    /\ Len(dispatched'[m]) = Len(dispatched[m]) + 1
    /\ dispatched'[m][Len(dispatched'[m])].cmd = cmd

\* C32: a Connect command dispatched while the stream connection is available
\* is answered Ok in that step, with no handshake attempt and the producer
\* left running, and the counter, the session id, the statistics, the penalty
\* and the subscription map as they were.  (SpecQueue)
C32_Step ==
    \A m \in Born :
        (Dispatches(m, "Connect") /\ Running(m))
        => /\ reply'[m] = Some([cmd |-> "Connect", result |-> "Ok"])
           /\ replied'[m] = Append(replied[m],
                                   [id |-> dispatched'[m][Len(dispatched'[m])].id,
                                    cmd |-> "Connect"])
           /\ manager'[m] = manager[m]
           /\ handshake'[m] = handshake[m]
           /\ connection'[m] = connection[m]
           /\ session_id'[m] = session_id[m]
           /\ events_sender'[m] = events_sender[m]
           /\ chan' = chan
C32_ConnectShortCircuit == [][C32_Step]_vars

\* C32 witness: the last command dispatched is a Connect, answered Ok with no
\* handshake attempt ever made by the manager, its first producer running
C32_Witness ==
    \E m \in Born :
        /\ dispatched[m] # <<>>
        /\ dispatched[m][Len(dispatched[m])].cmd = "Connect"
        /\ Len(replied[m]) = Len(dispatched[m])
        /\ reply[m] = Some([cmd |-> "Connect", result |-> "Ok"])
        /\ manager[m].attempts = 0
        /\ connection[m] = "Alive"

\* C33 (as claimed): once a node's manager task has ended the node's
\* subscription map is empty, also when create_player runs with a handle of
\* that node taken before.  (SpecTerminal)
C33_NoSubscriptionOutlives ==
    \A m \in Mgrs : manager[m].pc = "exited" => events_sender[m] = EmptyMap

\* manager m answered a Disconnect and has dispatched no Connect since
DisconnectedByCommand(m) ==
    \E i \in 1..Len(dispatched[m]) :
        /\ dispatched[m][i].cmd = "Disconnect"
        /\ i <= Len(replied[m])
        /\ \A j \in (i + 1)..Len(dispatched[m]) : dispatched[m][j].cmd # "Connect"

\* C34 (as claimed): from the answer to a Disconnect until a Connect is
\* dispatched the stream connection is unavailable and the manager is in no
\* reconnect, also when an error of the old producer was still queued.
\* (SpecQueue)
C34_StaysDisconnected ==
    \A m \in Born :
        DisconnectedByCommand(m)
        => /\ ~available(m)
           /\ manager[m].pc \notin {"connect", "sleep"}

\* C35 (as claimed): an entry leaves the registry only on account of the
\* manager whose handle it holds: in the step that removes it that manager's
\* task has ended.  (SpecFleet)
C35_Step ==
    \A nm \in DOMAIN nodes :
        nm \notin DOMAIN nodes' => manager[nodes[nm]].pc = "exited"
C35_RemovedByOwnManager == [][C35_Step]_vars

RestErrors == {"NoSessionId", "ResponseReceivedNotOk"}

\* C36: when the Rest destroy_player of a destroy_player(t) call fails the
\* call returns that error in the same step, and the step changes no
\* subscription map and sends nothing on any channel: t stays subscribed and
\* gets no Destroyed from the call.  (Spec)
C36_Step ==
    \A p \in Tasks :
        (call[p].pc = "rest" /\ call'[p].pc = "idle")
        => /\ call'[p].result \in RestErrors
           /\ call'[p].held = ""
           /\ events_sender' = events_sender
           /\ chan' = chan
           /\ nodes' = nodes
C36_DestroyFailure == [][C36_Step]_vars

\* C36 witness: a destroy_player(t) returned the error of its request, t is
\* still subscribed and its channel holds no Destroyed
C36_Witness ==
    \E p \in Tasks :
        /\ call[p].op = "destroy_player"
        /\ call[p].pc = "idle"
        /\ call[p].result = "ResponseReceivedNotOk"
        /\ \E m \in Owners(call[p].guild_id) :
              Destroyeds(events_sender[m][call[p].guild_id]) = 0

\* C37: when the update_connection request of a create_player(t, node, conn)
\* call fails, NoSessionId included, the call returns that error in the same
\* step and the step changes no subscription map: with calls that do not
\* overlap t is then in no map, so a later create_player(t, ..) is not
\* rejected as existing.  (SpecSeq)
C37_Step ==
    \A p \in Tasks :
        (call[p].pc = "new" /\ call'[p].pc = "idle")
        => /\ call'[p].result \in RestErrors
           /\ events_sender' = events_sender
           /\ chan' = chan
           /\ \A m \in Mgrs : ~Contains(events_sender'[m], call[p].guild_id)
C37_CreateFailure == [][C37_Step]_vars

\* C37 witness: a create_player(t, ..) failed with NoSessionId before the
\* node's Ready, and a later create_player(t, ..) returned Ok
C37_Witness ==
    \E p, q \in Tasks :
        /\ call[p].op = "create_player" /\ call[p].pc = "idle"
        /\ call[p].result = "NoSessionId"
        /\ call[q].op = "create_player" /\ call[q].pc = "idle"
        /\ call[q].result = "Ok"
        /\ call[q].guild_id = call[p].guild_id
        /\ Contains(events_sender[call[q].node], call[q].guild_id)

\* C38: on one Connection at most one producer task is alive at any time, and
\* none while connect opens the new stream; between calls available() is true
\* iff the producer of the held handle is alive, and no other producer is; a
\* producer sends at most one error and nothing after it; a disconnect called
\* on a disconnected Connection returns at once and changes nothing.
C38_State ==
    /\ Cardinality({id \in Producers : ProducerAlive(id)}) <= 1
    /\ stream.pc = "new" => \A id \in Producers : ~ProducerAlive(id)
    /\ stream.pc = "idle" =>
          /\ Connection_available <=> \E id \in Producers : ProducerAlive(id)
          /\ \A id \in Producers : ProducerAlive(id) => id = stream.handle
    /\ \A i, j \in 1..Len(stream.sent) :
          (i < j /\ stream.sent[i].kind = "Err") => stream.sent[j].id # stream.sent[i].id
C38_Step ==
    (stream.pc = "idle" /\ stream.handle = 0 /\ stream'.pc = "idle"
       /\ stream'.calls = stream.calls + 1)
    => stream' = [stream EXCEPT !.calls = @ + 1]
C38_OneProducer == []C38_State /\ [][C38_Step]_vars

\* C38 witness: two connects, the second after the first producer was aborted
\* and had finished, a producer that sent an error, then two disconnects
C38_Witness ==
    /\ stream.spawned = 2 /\ stream.calls = 4
    /\ stream.aborted = {1, 2}
    /\ stream.task[1] = "finished" /\ stream.task[2] = "finished"
    /\ stream.handle = 0 /\ stream.pc = "idle"
    /\ \E i \in 1..Len(stream.sent) : stream.sent[i].kind = "Err"
====
